---- MODULE Spec2Model ----
(***************************************************************************)
(* Reminder scheduling engine of the staff bot: the reminder store         *)
(* (database.py), the APScheduler job registry and its delivery callback   *)
(* (scheduler_service.py) and the operator handlers that drive them        *)
(* (handlers.py).                                                          *)
(*                                                                         *)
(* Time is counted in minutes from a Monday 00:00 (the compile code uses   *)
(* Monday 2000-01-03 as its reference day, weekday 0 = Monday).            *)
(* A time string "HH:MM" is the pair <<HH, MM>>; a date string is its day  *)
(* number; a days string is [all |-> TRUE, list |-> <<>>] for "all" and    *)
(* [all |-> FALSE, list |-> the comma separated numbers] otherwise.        *)
(***************************************************************************)
EXTENDS Integers, Sequences, FiniteSets, TLC

\* ------------------------------------------------------------------ bounds
\* largest reminder id the store hands out
MaxId == 2
\* number of handler / firing tasks that may be in flight together
MaxTasks == 2
\* number of clock steps after the first instant
MaxTicks == 2
\* largest |offset| reached by the +/- buttons, in button presses
MaxOffsetSteps == 1
\* largest number of whole days in an offset the diagnostics set
MaxDayShift == 1
\* add_job calls the diagnostics make for one id before the registry is cleared
MaxArms == 2

\* --------------------------------------------------------------- constants
MinutesPerHour == 60
MinutesPerDay == 1440
DaysPerWeek == 7
\* the minute buttons of the time menu and of the time picker
TickMinutes == 5
MinutesPerWeek == DaysPerWeek * MinutesPerDay
\* the first instant of the window: five minutes before a Monday 00:00
Start == MinutesPerWeek - TickMinutes
MaxNow == Start + MaxTicks * TickMinutes
MaxOffset == MaxOffsetSteps * TickMinutes
\* the chat a /bind comes from
GroupChat == 0 - 100
NoChat == 0
\* General topic
GeneralThread == 1
\* the chat id run_diagnostics arms its jobs with
FakeChat == 1

AllDays == [all |-> TRUE, list |-> <<>>]
DayList(s) == [all |-> FALSE, list |-> s]
NoDate == 0 - 1
\* a stored date the compile code cannot parse: process_specific_date accepts
\* "01.01.0999" and stores strftime's "999-01-01", which strptime rejects
BadDate == 0 - 1000

\* ---------------------------------------------------------------- settings
\* A TEXT value is the sequence of its characters.
Digit == {"0", "1", "2", "3", "4", "5", "6", "7", "8", "9"}
DigitValue(c) ==
  CASE c = "0" -> 0 [] c = "1" -> 1 [] c = "2" -> 2 [] c = "3" -> 3
    [] c = "4" -> 4 [] c = "5" -> 5 [] c = "6" -> 6 [] c = "7" -> 7
    [] c = "8" -> 8 [] c = "9" -> 9
DigitChar(d) ==
  CASE d = 0 -> "0" [] d = 1 -> "1" [] d = 2 -> "2" [] d = 3 -> "3"
    [] d = 4 -> "4" [] d = 5 -> "5" [] d = 6 -> "6" [] d = 7 -> "7"
    [] d = 8 -> "8" [] d = 9 -> "9"

\* str(value) of a Python int
RECURSIVE Decimal(_)
Decimal(n) == IF n < 10 THEN <<DigitChar(n)>>
              ELSE Append(Decimal(n \div 10), DigitChar(n % 10))
str(n) == IF n < 0 THEN <<"-">> \o Decimal(0 - n) ELSE Decimal(n)

\* int(text): surrounding whitespace is stripped, one sign may lead, the
\* rest is digits with single underscores between them; anything else
\* raises ValueError
RECURSIVE lstrip(_)
lstrip(s) == IF s # <<>> /\ Head(s) = " " THEN lstrip(Tail(s)) ELSE s
RECURSIVE rstrip(_)
rstrip(s) == IF s # <<>> /\ s[Len(s)] = " " THEN rstrip(SubSeq(s, 1, Len(s) - 1)) ELSE s
strip(s) == rstrip(lstrip(s))
Unsigned(s) == IF s # <<>> /\ Head(s) \in {"+", "-"} THEN Tail(s) ELSE s
IsNumeral(b) ==
  /\ b # <<>>
  /\ \A i \in 1..Len(b) : b[i] \in Digit \cup {"_"}
  /\ b[1] # "_"
  /\ b[Len(b)] # "_"
  /\ \A i \in 1..(Len(b) - 1) : ~(b[i] = "_" /\ b[i + 1] = "_")
RECURSIVE NumeralValue(_)
NumeralValue(b) ==
  IF b = <<>> THEN 0
  ELSE LET front == SubSeq(b, 1, Len(b) - 1)
           c == b[Len(b)]
       IN  IF c = "_" THEN NumeralValue(front)
           ELSE 10 * NumeralValue(front) + DigitValue(c)
ValueError(s) == ~IsNumeral(Unsigned(strip(s)))
int(s) ==
  LET t == strip(s)
  IN  IF Head(t) = "-" THEN 0 - NumeralValue(Unsigned(t)) ELSE NumeralValue(Unsigned(t))

\* text.split(sep) and sep.join(parts)
RECURSIVE split(_, _)
split(s, sep) ==
  IF \A i \in 1..Len(s) : s[i] # sep THEN <<s>>
  ELSE LET i == CHOOSE k \in 1..Len(s) : s[k] = sep /\ \A l \in 1..(k - 1) : s[l] # sep
       IN  <<SubSeq(s, 1, i - 1)>> \o split(SubSeq(s, i + 1, Len(s)), sep)
RECURSIVE join(_, _)
join(parts, sep) ==
  IF parts = <<>> THEN <<>>
  ELSE IF Len(parts) = 1 THEN parts[1]
  ELSE parts[1] \o <<sep>> \o join(Tail(parts), sep)

\* _shift_days with the remainder of a language whose % truncates
_shift_days_truncating(days_str, shift) ==
  IF days_str = <<"a", "l", "l">> \/ shift = 0 THEN days_str
  ELSE LET parts == SelectSeq([i \in 1..Len(split(days_str, ",")) |->
                                 strip(split(days_str, ",")[i])],
                              LAMBDA q : q # <<>>)
           days == SelectSeq(parts, LAMBDA q : ~ValueError(q))
           rem(a) == IF a < 0 THEN 0 - ((0 - a) % DaysPerWeek) ELSE a % DaysPerWeek
           shifted == [i \in 1..Len(days) |-> str(rem(int(days[i]) + shift))]
       IN  IF shifted # <<>> THEN join(shifted, ",") ELSE days_str

\* _shift_days on the text of the days column: parts = [p.strip() for p in
\* days_str.split(",") if p.strip()]; int(p) or skip; str((d + shift) % 7)
_shift_days(days_str, shift) ==
  IF days_str = <<"a", "l", "l">> \/ shift = 0 THEN days_str
  ELSE LET parts == SelectSeq([i \in 1..Len(split(days_str, ",")) |->
                                 strip(split(days_str, ",")[i])],
                              LAMBDA q : q # <<>>)
           days == SelectSeq(parts, LAMBDA q : ~ValueError(q))
           shifted == [i \in 1..Len(days) |-> str((int(days[i]) + shift) % DaysPerWeek)]
       IN  IF shifted # <<>> THEN join(shifted, ",") ELSE days_str

\* the settings row of a key: absent, or present with a TEXT value
NoRow == [present |-> FALSE, value |-> <<>>]
Stored(text) == [present |-> TRUE, value |-> text]

\* get_setting(key, default)
get_setting(row, default) == IF row.present THEN row.value ELSE default

\* _get_time_offset_minutes with a test that rejects a signed numeral
_get_time_offset_minutes_isdigit(row) ==
  LET raw == get_setting(row, str(0))
  IN  IF raw # <<>> /\ \A i \in 1..Len(raw) : raw[i] \in Digit THEN int(raw) ELSE 0

\* _get_time_offset_minutes: raw = await get_setting("time_offset_minutes", "0");
\* try: return int(str(raw)) / except Exception: return 0
_get_time_offset_minutes(row) ==
  LET raw == get_setting(row, str(0))
  IN  IF ValueError(raw) THEN 0 ELSE int(raw)

\* --------------------------------------------------------------- variables
VARIABLES
  running,   \* the process is up (main has started the scheduler)
  store,     \* reminders table: id -> row
  nextId,    \* AUTOINCREMENT counter of the reminders table
  offset,    \* settings.time_offset_minutes
  chat,      \* settings.group_chat_id (NoChat: not set)
  jobs,      \* the scheduler's job store
  tasks,     \* handler and firing coroutines in flight
  now,       \* system clock, minutes
  exact,     \* the clock reads exactly the whole minute `now`
  last,      \* the step just taken (observation only)
  solo,      \* nothing else has run since the reload in progress began
  fired,     \* history: ids whose date trigger has been run by the scheduler
  logs,      \* task_logs table: AUTOINCREMENT counter and rows
  fsm,       \* the operator's FSMContext: dialogue state and data
  from_user, \* from_user.id of the update being handled
  setting,   \* settings table: the row of key time_offset_minutes
  topics,    \* topics table: thread_id -> name
  topics_cache \* database.topics_cache, the in-memory set of thread ids

vars == <<running, store, nextId, offset, chat, jobs, tasks, now, exact, last, solo,
          fired, logs, fsm, from_user, setting, topics, topics_cache>>

\* ------------------------------------------------------- TriggerCompiler
Min(S) == CHOOSE x \in S : \A y \in S : x <= y

\* _job_id
job_id(rid) == <<"rem", rid>>
MaintenanceId == <<"weekly_maintenance", 0>>

\* timedelta(minutes=m), kept normalised as datetime keeps it: whole days and
\* a non-negative remainder below one day
timedelta(minutes) ==
  [days |-> minutes \div MinutesPerDay, minutes |-> minutes % MinutesPerDay]

\* base - timedelta: the negated delta is added to the base and the sum is
\* split into a date (day number, 0 = Monday 2000-01-03), an hour and a minute
datetime_sub(base, td) ==
  LET neg == timedelta(0 - (td.days * MinutesPerDay + td.minutes))
      delta == timedelta((base.day + neg.days) * MinutesPerDay
                           + base.hour * MinutesPerHour + base.minute + neg.minutes)
  IN  [day |-> delta.days, hour |-> delta.minutes \div MinutesPerHour,
       minute |-> delta.minutes % MinutesPerHour]

\* _convert_bot_time_to_server with base + offset in place of base - offset
convert_bot_time_to_server_added(time_str, offset_minutes) ==
  LET base == [day |-> 0, hour |-> time_str[1], minute |-> time_str[2]]
      server_dt == datetime_sub(base, timedelta(0 - offset_minutes))
  IN  <<server_dt.hour, server_dt.minute, server_dt.day - base.day>>

\* _convert_bot_time_to_server: <<hour, minute, shift_days>>
convert_bot_time_to_server(time_str, offset_minutes) ==
  LET base == [day |-> 0, hour |-> time_str[1], minute |-> time_str[2]]
      server_dt == datetime_sub(base, timedelta(offset_minutes))
  IN  <<server_dt.hour, server_dt.minute, server_dt.day - base.day>>

\* _shift_days without its "all" test: the sentinel is expanded and shifted
shift_days_expanded(days_str, shift) ==
  LET list == IF days_str.all THEN <<0, 1, 2, 3, 4, 5, 6>> ELSE days_str.list
      shifted == [i \in 1..Len(list) |-> (list[i] + shift) % DaysPerWeek]
  IN  IF shift = 0 THEN days_str
      ELSE IF shifted # <<>> THEN DayList(shifted) ELSE days_str

\* _shift_days
shift_days(days_str, shift) ==
  IF days_str.all \/ shift = 0 THEN days_str
  ELSE LET shifted == [i \in 1..Len(days_str.list) |->
                          (days_str.list[i] + shift) % DaysPerWeek]
       IN  IF shifted # <<>> THEN DayList(shifted) ELSE days_str

\* bot_fire_time + timedelta(minutes=offset) in place of the subtraction
fire_time_of_added(specific_date, time_str, offset_minutes) ==
  specific_date * MinutesPerDay + time_str[1] * MinutesPerHour + time_str[2]
    + offset_minutes

\* datetime.strptime(date + time) - timedelta(minutes=offset)
fire_time_of(specific_date, time_str, offset_minutes) ==
  specific_date * MinutesPerDay + time_str[1] * MinutesPerHour + time_str[2]
    - offset_minutes

\* fire_time <= datetime.now(tz)
InPast_inclusive(t, nowv, exactv) == t <= nowv

\* fire_time < datetime.now(tz)
InPast(t, nowv, exactv) == t < nowv \/ (t = nowv /\ ~exactv)

\* the days of the week a cron trigger runs on
CronDays(dow) ==
  IF dow.all THEN 0..(DaysPerWeek - 1)
  ELSE {dow.list[i] : i \in 1..Len(dow.list)}

\* the first run of a cron trigger at or after the clock reading
CronNext(hour, minute, dow, nowv, exactv) ==
  LET week == (nowv \div MinutesPerWeek) * MinutesPerWeek
      cand == {week + w * MinutesPerWeek + d * MinutesPerDay
                 + hour * MinutesPerHour + minute :
                 w \in 0..1, d \in CronDays(dow)}
  IN  Min({t \in cand : ~InPast(t, nowv, exactv)})

\* ------------------------------------------------------------ JobRegistry
\* scheduler.add_job without replace_existing taking effect
add_job_accumulate(J, job) == J \cup {job}

\* scheduler.add_job(..., id=..., replace_existing=True)
add_job(J, job) == {j \in J : j.id # job.id} \cup {job}

\* scheduler.remove_job raises JobLookupError when no job has the id
JobLookupError(J, id) == \A j \in J : j.id # id

\* try: scheduler.remove_job(id) / except Exception: pass
remove_job(J, id) == IF JobLookupError(J, id) THEN J ELSE {j \in J : j.id # id}

\* a reload that does not clear the job store
remove_all_jobs_kept(J) == J

\* scheduler.remove_all_jobs()
remove_all_jobs(J) == {}

\* start_maintenance_jobs: cron, day_of_week="sun", hour=3, minute=0
MaintenanceJob(nowv, exactv) ==
  [id |-> MaintenanceId, trigger |-> "cron", hour |-> 3, minute |-> 0,
   dow |-> DayList(<<6>>), run_date |-> NoDate,
   next |-> CronNext(3, 0, DayList(<<6>>), nowv, exactv),
   chat_id |-> NoChat, thread_id |-> 0, text |-> "", rid |-> 0,
   needs_confirm |-> FALSE, is_recurring |-> TRUE]

\* a startup or reload that does not install the maintenance job
start_maintenance_jobs_missing(J, nowv, exactv) == J

start_maintenance_jobs(J, nowv, exactv) == add_job(J, MaintenanceJob(nowv, exactv))

\* the 'date' job handing on the stored is_recurring flag
DateJob_stored_flag(chat_id, rid, r, fire_time) ==
  [id |-> job_id(rid), trigger |-> "date", hour |-> 0, minute |-> 0,
   dow |-> AllDays, run_date |-> fire_time, next |-> fire_time,
   chat_id |-> chat_id, thread_id |-> r.thread_id, text |-> r.text, rid |-> rid,
   needs_confirm |-> r.needs_confirm, is_recurring |-> r.is_recurring]

\* the 'date' job of add_reminder_to_scheduler
DateJob(chat_id, rid, r, fire_time) ==
  [id |-> job_id(rid), trigger |-> "date", hour |-> 0, minute |-> 0,
   dow |-> AllDays, run_date |-> fire_time, next |-> fire_time,
   chat_id |-> chat_id, thread_id |-> r.thread_id, text |-> r.text, rid |-> rid,
   needs_confirm |-> r.needs_confirm, is_recurring |-> FALSE]

\* the 'cron' job of add_reminder_to_scheduler
CronJob(chat_id, rid, r, offset_minutes, nowv, exactv) ==
  LET c == convert_bot_time_to_server(r.time, offset_minutes)
      shifted == shift_days(r.days, c[3])
  IN  [id |-> job_id(rid), trigger |-> "cron", hour |-> c[1], minute |-> c[2],
       dow |-> shifted, run_date |-> NoDate,
       next |-> CronNext(c[1], c[2], shifted, nowv, exactv),
       chat_id |-> chat_id, thread_id |-> r.thread_id, text |-> r.text, rid |-> rid,
       needs_confirm |-> r.needs_confirm, is_recurring |-> r.is_recurring]

\* the one-shot branch returns before add_job: fire_time < datetime.now(tz)
Skipped(r, offset_minutes, nowv, exactv) ==
  /\ r.specific_date # NoDate
  /\ InPast(fire_time_of(r.specific_date, r.time, offset_minutes), nowv, exactv)

\* add_reminder_to_scheduler compiling without the offset it has read
add_reminder_to_scheduler_no_offset(J, chat_id, rid, r, offset_minutes, nowv, exactv) ==
  IF r.specific_date # NoDate
  THEN LET fire_time == fire_time_of(r.specific_date, r.time, 0)
       IN  IF InPast(fire_time, nowv, exactv) THEN J
           ELSE add_job(J, DateJob(chat_id, rid, r, fire_time))
  ELSE add_job(J, CronJob(chat_id, rid, r, 0, nowv, exactv))

\* add_reminder_to_scheduler raises: datetime.strptime rejects the stored date
Raises(r) == r.specific_date = BadDate

\* add_reminder_to_scheduler compiling a weekly schedule from the job already
\* armed for the reminder, when there is one, instead of from the stored row
add_reminder_to_scheduler_from_job(J, chat_id, rid, r, offset_minutes, nowv, exactv) ==
  LET prev == {j \in J : j.id = job_id(rid) /\ j.trigger = "cron"}
  IN  IF r.specific_date # NoDate
      THEN LET fire_time == fire_time_of(r.specific_date, r.time, offset_minutes)
           IN  IF InPast(fire_time, nowv, exactv) THEN J
               ELSE add_job(J, DateJob(chat_id, rid, r, fire_time))
      ELSE IF prev = {}
           THEN add_job(J, CronJob(chat_id, rid, r, offset_minutes, nowv, exactv))
           ELSE LET j == CHOOSE x \in prev : TRUE
                IN  add_job(J, CronJob(chat_id, rid,
                                       [r EXCEPT !.time = <<j.hour, j.minute>>,
                                                 !.days = j.dow],
                                       offset_minutes, nowv, exactv))

\* add_reminder_to_scheduler without the early return of the one-shot branch
add_reminder_to_scheduler_no_skip(J, chat_id, rid, r, offset_minutes, nowv, exactv) ==
  IF r.specific_date # NoDate
  THEN add_job(J, DateJob(chat_id, rid, r,
                          fire_time_of(r.specific_date, r.time, offset_minutes)))
  ELSE add_job(J, CronJob(chat_id, rid, r, offset_minutes, nowv, exactv))

\* add_reminder_to_scheduler, after the offset has been read
add_reminder_to_scheduler(J, chat_id, rid, r, offset_minutes, nowv, exactv) ==
  IF r.specific_date # NoDate
  THEN LET fire_time == fire_time_of(r.specific_date, r.time, offset_minutes)
       IN  IF InPast(fire_time, nowv, exactv) THEN J
           ELSE add_job(J, DateJob(chat_id, rid, r, fire_time))
  ELSE add_job(J, CronJob(chat_id, rid, r, offset_minutes, nowv, exactv))

\* --------------------------------------------------------- ReminderStore
\* add_reminder: INSERT, the row is active by default
add_reminder(S, rid, data) == S @@ (rid :> [data EXCEPT !.active = TRUE])

\* delete_reminder with "id >= ?" in place of "id = ?"
delete_reminder_from(S, rid) == [i \in {k \in DOMAIN S : k < rid} |-> S[i]]

\* delete_reminder
delete_reminder(S, rid) == [i \in DOMAIN S \ {rid} |-> S[i]]

\* toggle_reminder_status
toggle_reminder_status(S, rid) ==
  IF rid \in DOMAIN S
  THEN [S EXCEPT ![rid].active = ~S[rid].active]
  ELSE S

\* get_reminders, in rowid order
RECURSIVE IdsFrom(_, _)
IdsFrom(S, lo) ==
  IF \A i \in DOMAIN S : i < lo THEN <<>>
  ELSE LET i == Min({k \in DOMAIN S : k >= lo}) IN <<i>> \o IdsFrom(S, i + 1)

get_reminders(S) == IdsFrom(S, 1)

\* load_reminders without its "if r[5]" test
ActiveIds_unfiltered(S) == get_reminders(S)

\* the rows load_reminders hands to add_reminder_to_scheduler
ActiveIds(S) == SelectSeq(get_reminders(S), LAMBDA i : S[i].active)

\* the loop of load_reminders; an exception of add_reminder_to_scheduler
\* leaves the loop for the except clause around it
RECURSIVE ArmAll(_, _, _, _, _, _, _)
ArmAll(J, chat_id, S, ids, offset_minutes, nowv, exactv) ==
  IF ids = <<>> THEN J
  ELSE IF Raises(S[Head(ids)]) THEN J
  ELSE ArmAll(add_reminder_to_scheduler(J, chat_id, Head(ids), S[Head(ids)],
                                        offset_minutes, nowv, exactv),
              chat_id, S, Tail(ids), offset_minutes, nowv, exactv)

\* load_reminders without its "if not chat_id: return"
load_reminders_unchecked(J, chat_id, S, offset_minutes, nowv, exactv) ==
  ArmAll(J, chat_id, S, ActiveIds(S), offset_minutes, nowv, exactv)

\* load_reminders run without interruption (startup)
load_reminders(J, chat_id, S, offset_minutes, nowv, exactv) ==
  IF chat_id = NoChat THEN J
  ELSE ArmAll(J, chat_id, S, ActiveIds(S), offset_minutes, nowv, exactv)

\* ------------------------------------------------------------------ inputs
Times == {<<0, 0>>}
Dates == {DaysPerWeek}
Deltas == {TickMinutes, 0 - TickMinutes}
Outcomes == {"Success", "Forbidden", "InvalidTarget", "BadRequest", "Error"}

Data(time, days, date, rec) ==
  [thread_id |-> GeneralThread, text |-> "t", time |-> time, days |-> days,
   active |-> TRUE, needs_confirm |-> FALSE, specific_date |-> date,
   is_recurring |-> rec]

\* what the creation dialogue can hand to confirm_reminder_h
Forms ==
  {Data(t, DayList(<<0>>), NoDate, TRUE) : t \in Times} \cup
  {Data(t, AllDays, NoDate, FALSE) : t \in Times} \cup
  {Data(t, DayList(<<>>), d, FALSE) : t \in Times, d \in Dates} \cup
  {Data(t, DayList(<<0>>), d, TRUE) : t \in Times, d \in Dates} \cup
  {Data(t, DayList(<<>>), BadDate, FALSE) : t \in Times}

\* ------------------------------------------------------------------- tasks
Slots == 1..MaxTasks
NoData == Data(<<0, 0>>, DayList(<<>>), NoDate, FALSE)
Idle == [kind |-> "idle", pc |-> "", rid |-> 0, data |-> NoData, val |-> 0,
         chat_id |-> NoChat, rows |-> <<>>, ids |-> <<>>]

FreeSlot(t) == tasks[t] = Idle /\ \A u \in Slots : u < t => tasks[u] # Idle
Quiescent == \A t \in Slots : tasks[t] = Idle

Step(op, rid, out) == [op |-> op, rid |-> rid, out |-> out]
\* a step no property looks at
Quiet == Step("", 0, "")

Task(kind, pc, rid, data, val, chat_id, rows, ids) ==
  [kind |-> kind, pc |-> pc, rid |-> rid, data |-> data, val |-> val,
   chat_id |-> chat_id, rows |-> rows, ids |-> ids]

Due(j) == j.next <= now

\* FSMContext after state.clear(): no state, no data. `keys` are the data
\* keys present, `data` their values, `pending` that process_audit_option has
\* gone on to confirm_reminder_h, `screen` the keyboard of the bot's last
\* message ("": a menu).
NoState ==
  [state |-> "", keys |-> {}, schedule_type |-> "", data |-> NoData, pending |-> FALSE,
   screen |-> "", temp_time |-> <<>>]

\* config.ADMIN_IDS, and a Telegram user who is not in it
Operator == 1
Stranger == 2
Deputy == 3
\* ADMIN_IDS in the order of the environment variable, and as a set
AdminList == <<Operator, Deputy>>
ADMIN_IDS == {AdminList[i] : i \in DOMAIN AdminList}
Users == {Operator, Stranger}

\* the empty task_logs table
NoLogs == [next |-> 1, rows |-> {}]

\* ------------------------------------------------------------------ topics
\* the seeded name 'General (Общий)'
GeneralName == "General"
\* init_db: "Load cache" reads the thread ids of the topics table into
\* topics_cache; after that "Seed Defaults" does INSERT OR IGNORE INTO topics
\* (thread_id, name) VALUES (1, 'General (Общий)')
init_db_cache(T, cache) == cache \cup DOMAIN T
init_db_seed(T) == IF GeneralThread \in DOMAIN T THEN T ELSE T @@ (GeneralThread :> GeneralName)

\* -------------------------------------------------------------------- Init
Init ==
  /\ running = FALSE
  /\ store = <<>>
  /\ nextId = 1
  /\ offset = 0
  /\ chat = NoChat
  /\ jobs = {}
  /\ tasks = [t \in Slots |-> Idle]
  /\ now = Start
  /\ exact = TRUE
  /\ last = Quiet
  /\ solo = FALSE
  /\ fired = {}
  /\ logs = NoLogs
  /\ fsm = NoState
  /\ from_user = Operator
  /\ topics = <<>>
  /\ topics_cache = {}
  /\ setting = Stored(str(0))

\* ----------------------------------------------------------------- process
\* main: load_reminders, start_maintenance_jobs, scheduler.start
main ==
  /\ ~running
  /\ running' = TRUE
  /\ jobs' = start_maintenance_jobs(
               load_reminders(jobs, chat, store, offset, now, exact), now, exact)
  /\ last' = Step("main", 0, "")
  /\ solo' = FALSE
  /\ topics' = init_db_seed(topics)
  /\ topics_cache' = init_db_cache(topics, topics_cache)
  /\ UNCHANGED <<setting, from_user, fsm, fired, logs, store, nextId, offset, chat, tasks, now, exact>>

\* the process ends: the in-memory job store and the coroutines are gone
shutdown ==
  /\ running
  /\ running' = FALSE
  /\ jobs' = {}
  /\ tasks' = [t \in Slots |-> Idle]
  /\ last' = Quiet
  /\ solo' = FALSE
  /\ fsm' = NoState
  /\ topics_cache' = {}
  /\ UNCHANGED topics
  /\ UNCHANGED <<setting, from_user, fired, logs, store, nextId, offset, chat, now, exact>>

\* the system clock moves on; the scheduler wakes up for every due job
Tick ==
  /\ IF exact
     THEN /\ exact' = FALSE
          /\ now' = now
     ELSE /\ now + TickMinutes <= MaxNow
          /\ \A j \in jobs : j.next >= now + TickMinutes
          /\ now' = now + TickMinutes
          /\ exact' = TRUE
  /\ last' = Quiet
  /\ solo' = FALSE
  /\ UNCHANGED <<topics, topics_cache, setting, from_user, fsm, fired, logs, running, store, nextId, offset, chat, jobs, tasks>>

\* ---------------------------------------------------------------- handlers
\* cmd_bind: if message.from_user.id not in ADMIN_IDS: return
cmd_bind ==
  /\ running
  /\ from_user \in ADMIN_IDS
  /\ chat' = GroupChat
  /\ last' = Quiet
  /\ solo' = FALSE
  /\ UNCHANGED <<topics, topics_cache, setting, from_user, fsm, fired, logs, running, store, nextId, offset, jobs, tasks, now, exact>>

\* tog_rem_h: toggle_reminder_status, then the list is shown again
tog_rem_h(rid) ==
  /\ running
  /\ store' = toggle_reminder_status(store, rid)
  /\ last' = Step("tog_rem_h", rid, "")
  /\ solo' = FALSE
  /\ UNCHANGED <<topics, topics_cache, setting, from_user, fsm, fired, logs, running, nextId, offset, chat, jobs, tasks, now, exact>>

\* c_del: await delete_reminder(rid)
c_del_delete(t, rid) ==
  /\ running
  /\ FreeSlot(t)
  /\ store' = delete_reminder(store, rid)
  /\ tasks' = [tasks EXCEPT ![t] =
                 Task("c_del", "remove", rid, NoData, 0, NoChat, <<>>, <<>>)]
  /\ last' = Step("c_del_delete", rid, "")
  /\ solo' = FALSE
  /\ UNCHANGED <<topics, topics_cache, setting, from_user, fsm, fired, logs, running, nextId, offset, chat, jobs, now, exact>>

\* c_del: scheduler.remove_job(f"rem_{rid}")
c_del_remove(t) ==
  /\ tasks[t].kind = "c_del"
  /\ tasks[t].pc = "remove"
  /\ jobs' = remove_job(jobs, job_id(tasks[t].rid))
  /\ tasks' = [tasks EXCEPT ![t] = Idle]
  /\ last' = Step("c_del", tasks[t].rid,
                   IF JobLookupError(jobs, job_id(tasks[t].rid)) THEN "absent" ELSE "removed")
  /\ solo' = FALSE
  /\ UNCHANGED <<topics, topics_cache, setting, from_user, fsm, fired, logs, running, store, nextId, offset, chat, now, exact>>

\* confirm_reminder_h: rid = await add_reminder(...)
confirm_reminder_h_insert(t, data) ==
  /\ running
  /\ FreeSlot(t)
  /\ nextId <= MaxId
  /\ store' = add_reminder(store, nextId, data)
  /\ nextId' = nextId + 1
  /\ tasks' = [tasks EXCEPT ![t] =
                 Task("confirm_reminder_h", "read", nextId, data, 0, NoChat, <<>>, <<>>)]
  /\ last' = Quiet
  /\ solo' = FALSE
  /\ UNCHANGED <<topics, topics_cache, setting, from_user, fsm, fired, logs, running, offset, chat, jobs, now, exact>>

\* confirm_reminder_h: chat_id = await get_setting("group_chat_id"), and in
\* add_reminder_to_scheduler offset_minutes = await _get_time_offset_minutes().
\* The binding is only ever set, so the two reads are taken as one step.
confirm_reminder_h_read(t) ==
  /\ tasks[t].kind = "confirm_reminder_h"
  /\ tasks[t].pc = "read"
  /\ tasks' = [tasks EXCEPT ![t] =
                 IF chat = NoChat THEN Idle
                 ELSE [@ EXCEPT !.pc = "arm", !.chat_id = chat, !.val = offset]]
  /\ last' = IF chat = NoChat THEN Step("confirm_reminder_h", tasks[t].rid, "unbound")
             ELSE Quiet
  /\ fsm' = IF chat = NoChat THEN NoState ELSE fsm
  /\ solo' = FALSE
  /\ UNCHANGED <<topics, topics_cache, setting, from_user, fired, logs, running, store, nextId, offset, chat, jobs, now, exact>>

\* add_reminder_to_scheduler: compile and add_job
confirm_reminder_h_arm(t) ==
  /\ tasks[t].kind = "confirm_reminder_h"
  /\ tasks[t].pc = "arm"
  /\ jobs' = IF Raises(tasks[t].data) THEN jobs
             ELSE add_reminder_to_scheduler(jobs, tasks[t].chat_id, tasks[t].rid,
                                            tasks[t].data, tasks[t].val, now, exact)
  /\ tasks' = [tasks EXCEPT ![t] = Idle]
  /\ last' = Step("confirm_reminder_h", tasks[t].rid,
                   IF Raises(tasks[t].data) THEN "raised" ELSE "bound")
  /\ fsm' = IF Raises(tasks[t].data) THEN fsm ELSE NoState
  /\ solo' = FALSE
  /\ UNCHANGED <<topics, topics_cache, setting, from_user, fired, logs, running, store, nextId, offset, chat, now, exact>>

\* a scheduler that starts no job while a delivery callback is pending
scheduler_fire_serial(t, j) ==
  /\ running
  /\ \A u \in Slots : tasks[u].kind # "send_reminder_job"
  /\ FreeSlot(t)
  /\ j \in jobs
  /\ j.id # MaintenanceId
  /\ Due(j)
  /\ jobs' = IF j.trigger = "date" THEN jobs \ {j}
             ELSE (jobs \ {j}) \cup
                  {[j EXCEPT !.next = CronNext(j.hour, j.minute, j.dow, j.next, FALSE)]}
  /\ tasks' = [tasks EXCEPT ![t] =
                 Task("send_reminder_job", "send", j.rid,
                      [NoData EXCEPT !.is_recurring = j.is_recurring],
                      0, j.chat_id, <<>>, <<>>)]
  /\ exact' = FALSE
  /\ last' = Step("scheduler_fire", j.rid, j.trigger)
  /\ solo' = FALSE
  /\ fired' = IF j.trigger = "date" THEN fired \cup {j.rid} ELSE fired
  /\ UNCHANGED <<topics, topics_cache, setting, from_user, fsm, logs, running, store, nextId, offset, chat, now>>

\* ------------------------------------------------------------------ firing
\* the scheduler runs a due job: a date job leaves the job store, a cron job
\* gets its next run time; the callback starts and awaits bot.send_message
scheduler_fire(t, j) ==
  /\ running
  /\ FreeSlot(t)
  /\ j \in jobs
  /\ j.id # MaintenanceId
  /\ Due(j)
  /\ jobs' = IF j.trigger = "date" THEN jobs \ {j}
             ELSE (jobs \ {j}) \cup
                  {[j EXCEPT !.next = CronNext(j.hour, j.minute, j.dow, j.next, FALSE)]}
  /\ tasks' = [tasks EXCEPT ![t] =
                 Task("send_reminder_job", "send", j.rid,
                      [NoData EXCEPT !.is_recurring = j.is_recurring],
                      0, j.chat_id, <<>>, <<>>)]
  /\ exact' = FALSE
  /\ last' = Step("scheduler_fire", j.rid, j.trigger)
  /\ solo' = FALSE
  /\ fired' = IF j.trigger = "date" THEN fired \cup {j.rid} ELSE fired
  /\ UNCHANGED <<topics, topics_cache, setting, from_user, fsm, logs, running, store, nextId, offset, chat, now>>

\* send_reminder_job deleting after every success, recurring or not
AfterSend_always_deletes(out, is_recurring) ==
  IF out = "Success" THEN "delete"
  ELSE IF out = "InvalidTarget" THEN "toggle"
  ELSE "done"

\* send_reminder_job disabling the reminder after any TelegramBadRequest
AfterSend_any_bad_request(out, is_recurring) ==
  IF out = "Success" /\ ~is_recurring THEN "delete"
  ELSE IF out \in {"InvalidTarget", "BadRequest"} THEN "toggle"
  ELSE "done"

\* what send_reminder_job goes on to do once bot.send_message has ended
AfterSend(out, is_recurring) ==
  IF out = "Success" /\ ~is_recurring THEN "delete"
  ELSE IF out = "InvalidTarget" THEN "toggle"
  ELSE "done"

\* send_reminder_job: bot.send_message returns or raises
send_reminder_job_sent(t, out) ==
  /\ tasks[t].kind = "send_reminder_job"
  /\ tasks[t].pc = "send"
  /\ LET pc == AfterSend(out, tasks[t].data.is_recurring)
     IN  tasks' = [tasks EXCEPT ![t] = IF pc = "done" THEN Idle ELSE [@ EXCEPT !.pc = pc]]
  /\ last' = Step("sent", tasks[t].rid, out)
  /\ solo' = FALSE
  /\ UNCHANGED <<topics, topics_cache, setting, from_user, fsm, fired, logs, running, store, nextId, offset, chat, jobs, now, exact>>

\* send_reminder_job: await delete_reminder(rid)
send_reminder_job_delete(t) ==
  /\ tasks[t].kind = "send_reminder_job"
  /\ tasks[t].pc = "delete"
  /\ store' = delete_reminder(store, tasks[t].rid)
  /\ tasks' = [tasks EXCEPT ![t] = [@ EXCEPT !.pc = "remove", !.val = 1]]
  /\ last' = Quiet
  /\ solo' = FALSE
  /\ UNCHANGED <<topics, topics_cache, setting, from_user, fsm, fired, logs, running, nextId, offset, chat, jobs, now, exact>>

\* send_reminder_job: await toggle_reminder_status(rid)
send_reminder_job_toggle(t) ==
  /\ tasks[t].kind = "send_reminder_job"
  /\ tasks[t].pc = "toggle"
  /\ store' = toggle_reminder_status(store, tasks[t].rid)
  /\ tasks' = [tasks EXCEPT ![t] = [@ EXCEPT !.pc = "remove"]]
  /\ last' = Quiet
  /\ solo' = FALSE
  /\ UNCHANGED <<topics, topics_cache, setting, from_user, fsm, fired, logs, running, nextId, offset, chat, jobs, now, exact>>

\* send_reminder_job: scheduler.remove_job(_job_id(rid))
send_reminder_job_remove(t) ==
  /\ tasks[t].kind = "send_reminder_job"
  /\ tasks[t].pc = "remove"
  /\ jobs' = remove_job(jobs, job_id(tasks[t].rid))
  /\ tasks' = [tasks EXCEPT ![t] = Idle]
  /\ last' = Step("send_reminder_job", tasks[t].rid,
                   IF tasks[t].val = 1 THEN "consumed" ELSE "disabled")
  /\ solo' = FALSE
  /\ UNCHANGED <<topics, topics_cache, setting, from_user, fsm, fired, logs, running, store, nextId, offset, chat, now, exact>>

\* send_reminder_job: await delete_reminder(rid) raises inside the try block;
\* `except Exception` logs it, scheduler.remove_job is not reached
send_reminder_job_delete_fails(t) ==
  /\ tasks[t].kind = "send_reminder_job"
  /\ tasks[t].pc = "delete"
  /\ tasks' = [tasks EXCEPT ![t] = Idle]
  /\ last' = Step("send_reminder_job", tasks[t].rid, "contained")
  /\ solo' = FALSE
  /\ UNCHANGED <<topics, topics_cache, setting, from_user, fsm, fired, logs, running, store, nextId, offset, chat, jobs, now, exact>>

\* send_reminder_job: await toggle_reminder_status(rid) raises inside the
\* `except TelegramBadRequest` clause, where no handler of the same try
\* statement applies: the exception leaves the coroutine
send_reminder_job_toggle_fails(t) ==
  /\ tasks[t].kind = "send_reminder_job"
  /\ tasks[t].pc = "toggle"
  /\ tasks' = [tasks EXCEPT ![t] = Idle]
  /\ last' = Step("send_reminder_job", tasks[t].rid, "raised")
  /\ solo' = FALSE
  /\ UNCHANGED <<topics, topics_cache, setting, from_user, fsm, fired, logs, running, store, nextId, offset, chat, jobs, now, exact>>

\* ------------------------------------------------------------ offset, reload
\* time_adjust: cur = await _get_time_offset_minutes(); new_val = cur + delta
time_adjust_read(t, delta) ==
  /\ running
  /\ FreeSlot(t)
  /\ offset + delta <= MaxOffset
  /\ offset + delta >= 0 - MaxOffset
  /\ tasks' = [tasks EXCEPT ![t] =
                 Task("time_adjust", "write", 0, NoData, offset + delta, NoChat, <<>>, <<>>)]
  /\ last' = Quiet
  /\ solo' = FALSE
  /\ UNCHANGED <<topics, topics_cache, setting, from_user, fsm, fired, logs, running, store, nextId, offset, chat, jobs, now, exact>>

\* time_adjust: await set_setting("time_offset_minutes", str(new_val))
time_adjust_write(t) ==
  /\ tasks[t].kind = "time_adjust"
  /\ tasks[t].pc = "write"
  /\ setting' = Stored(str(tasks[t].val))
  /\ offset' = _get_time_offset_minutes(setting')
  /\ tasks' = [tasks EXCEPT ![t] = [@ EXCEPT !.pc = "reload"]]
  /\ last' = Quiet
  /\ solo' = FALSE
  /\ UNCHANGED <<topics, topics_cache, from_user, fsm, fired, logs, running, store, nextId, chat, jobs, now, exact>>

\* the handlers that end with await reload_scheduler(bot)
Reloaders == {"time_adjust", "time_input_finish"}

\* what the operator may type as the current time
InputTimes == {<<0, 0>>, <<0, 5>>, <<23, 55>>}

\* time_input_finish with the minutes of server_now.replace(...) taken from
\* the epoch instead of from the day
offset_for_epoch(time_str, nowv) ==
  time_str[1] * MinutesPerHour + time_str[2] - nowv

\* time_input_finish: desired_now = server_now.replace(hour=h, minute=m);
\* offset_minutes = (desired_now - server_now) // 60
offset_for(time_str, nowv) ==
  time_str[1] * MinutesPerHour + time_str[2] - (nowv % MinutesPerDay)

\* time_input_finish: await set_setting("time_offset_minutes", str(offset_minutes))
time_input_finish_write(t, time_str) ==
  /\ running
  /\ FreeSlot(t)
  /\ offset_for(time_str, now) <= MaxOffset
  /\ offset_for(time_str, now) >= 0 - MaxOffset
  /\ setting' = Stored(str(offset_for(time_str, now)))
  /\ offset' = _get_time_offset_minutes(setting')
  /\ tasks' = [tasks EXCEPT ![t] =
                 Task("time_input_finish", "reload", 0, NoData, 0, NoChat, <<>>, <<>>)]
  /\ last' = Quiet
  /\ solo' = FALSE
  /\ UNCHANGED <<topics, topics_cache, from_user, fsm, fired, logs, running, store, nextId, chat, jobs, now, exact>>

\* reload_scheduler: remove_all_jobs, start_maintenance_jobs
reload_scheduler(t) ==
  /\ tasks[t].pc = "reload"
  /\ jobs' = start_maintenance_jobs(remove_all_jobs(jobs), now, exact)
  /\ tasks' = [tasks EXCEPT ![t] = [@ EXCEPT !.pc = "list", !.val = 0]]
  /\ last' = Quiet
  /\ solo' = \A u \in Slots \ {t} : tasks[u] = Idle
  /\ UNCHANGED <<topics, topics_cache, setting, from_user, fsm, fired, logs, running, store, nextId, offset, chat, now, exact>>

\* the rows of a snapshot that are still to be armed
Rows(S, ids) == [i \in {ids[k] : k \in 1..Len(ids)} |-> S[i]]

\* load_reminders: chat_id = await get_setting("group_chat_id") and
\* reminders = await get_reminders(); the loop runs over the active rows.
\* The binding is only ever set, so the two reads are taken as one step.
load_reminders_list(t) ==
  /\ tasks[t].kind \in Reloaders
  /\ tasks[t].pc = "list"
  /\ LET ids == IF chat = NoChat THEN <<>> ELSE ActiveIds(store)
     IN  /\ tasks' = [tasks EXCEPT ![t] =
                        IF ids = <<>> THEN Idle
                        ELSE [@ EXCEPT !.pc = "offset", !.chat_id = chat,
                                       !.rows = Rows(store, ids), !.ids = ids]]
         /\ last' = IF ids = <<>>
                    THEN Step("reload_scheduler", 0,
                              IF chat = NoChat THEN "unbound" ELSE "bound")
                    ELSE Quiet
  /\ UNCHANGED <<topics, topics_cache, setting, from_user, fsm, fired, logs, running, store, nextId, offset, chat, jobs, now, exact, solo>>

\* add_reminder_to_scheduler: offset_minutes = await _get_time_offset_minutes()
load_reminders_offset(t) ==
  /\ tasks[t].kind \in Reloaders
  /\ tasks[t].pc = "offset"
  /\ tasks' = [tasks EXCEPT ![t] = [@ EXCEPT !.pc = "arm", !.val = offset]]
  /\ last' = Quiet
  /\ UNCHANGED <<topics, topics_cache, setting, from_user, fsm, fired, logs, running, store, nextId, offset, chat, jobs, now, exact, solo>>

\* add_reminder_to_scheduler: compile and add_job; then the next row
load_reminders_arm(t) ==
  /\ tasks[t].kind \in Reloaders
  /\ tasks[t].pc = "arm"
  /\ LET rid == Head(tasks[t].ids)
         rest == Tail(tasks[t].ids)
         raised == Raises(tasks[t].rows[rid])
     IN  /\ jobs' = IF raised THEN jobs
                    ELSE add_reminder_to_scheduler(jobs, tasks[t].chat_id, rid,
                                                   tasks[t].rows[rid], tasks[t].val,
                                                   now, exact)
         /\ tasks' = [tasks EXCEPT ![t] =
                        IF rest = <<>> \/ raised THEN Idle
                        ELSE [@ EXCEPT !.pc = "offset", !.val = 0, !.ids = rest,
                                       !.rows = Rows(@, rest)]]
         /\ last' = IF raised THEN Step("reload_scheduler", 0, "aborted")
                    ELSE IF rest = <<>> THEN Step("reload_scheduler", 0, "bound")
                    ELSE Quiet
  /\ UNCHANGED <<topics, topics_cache, setting, from_user, fsm, fired, logs, running, store, nextId, offset, chat, now, exact, solo>>

\* -------------------------------------------------------------------- Next
Ids == 1..MaxId

\* An operator request or a due job is taken up
Begin ==
  \/ cmd_bind
  \/ \E rid \in Ids : tog_rem_h(rid)
  \/ \E t \in Slots, rid \in Ids : c_del_delete(t, rid)
  \/ \E t \in Slots, data \in Forms : confirm_reminder_h_insert(t, data)
  \/ \E t \in Slots, j \in jobs : scheduler_fire(t, j)
  \/ \E t \in Slots, delta \in Deltas : time_adjust_read(t, delta)
  \/ \E t \in Slots, time_str \in InputTimes : time_input_finish_write(t, time_str)

\* A coroutine in flight goes on to its next await
Continue ==
  \/ \E t \in Slots : c_del_remove(t)
  \/ \E t \in Slots : confirm_reminder_h_read(t)
  \/ \E t \in Slots : confirm_reminder_h_arm(t)
  \/ \E t \in Slots, out \in Outcomes : send_reminder_job_sent(t, out)
  \/ \E t \in Slots : send_reminder_job_delete(t)
  \/ \E t \in Slots : send_reminder_job_toggle(t)
  \/ \E t \in Slots : send_reminder_job_remove(t)
  \/ \E t \in Slots : time_adjust_write(t)
  \/ \E t \in Slots : reload_scheduler(t)
  \/ \E t \in Slots : load_reminders_list(t)
  \/ \E t \in Slots : load_reminders_offset(t)
  \/ \E t \in Slots : load_reminders_arm(t)

\* Operations taken one at a time: a handler or a delivery callback runs to
\* its end before the next request, the next due job or the next clock step
Next ==
  \/ main
  \/ shutdown
  \/ Quiescent /\ Tick
  \/ Quiescent /\ Begin
  \/ Continue

Spec == Init /\ [][Next]_vars

\* The same process started on a database that already holds the binding
\* of an earlier /bind
InitBound ==
  /\ running = FALSE
  /\ store = <<>>
  /\ nextId = 1
  /\ offset = 0
  /\ chat = GroupChat
  /\ jobs = {}
  /\ tasks = [t \in Slots |-> Idle]
  /\ now = Start
  /\ exact = TRUE
  /\ last = Quiet
  /\ solo = FALSE
  /\ fired = {}
  /\ logs = NoLogs
  /\ fsm = NoState
  /\ from_user = Operator
  /\ topics = <<>>
  /\ topics_cache = {}
  /\ setting = Stored(str(0))

SpecBound == InitBound /\ [][Next]_vars

\* ------------------------------------------------------------ diagnostics
\* run_diagnostics drives the compile code and the registry directly: the
\* scheduler is started paused, the offset is written with set_setting after
\* remove_all_jobs, and add_reminder_to_scheduler is called with literal rows.
DiagOffsets ==
  {d * MinutesPerDay + m : d \in (0 - MaxDayShift)..MaxDayShift,
                           m \in {0 - 2 * MinutesPerHour, 0, 2 * MinutesPerHour}}
DiagTimes == {<<0, 30>>, <<23, 30>>}
DiagDays == {AllDays, DayList(<<0>>), DayList(<<0, 2, 6>>)}
\* "2000-01-01", and a date some days ahead of the clock
DiagDates == {0 - 2, DaysPerWeek + 3}
DiagForms ==
  {Data(t, d, NoDate, TRUE) : t \in DiagTimes, d \in DiagDays} \cup
  {Data(<<23, 30>>, AllDays, dt, FALSE) : dt \in DiagDates}

\* the ids the diagnostics arm (99001, 99002 in the source)
DiagIds == {1, 2}
NoArms == [i \in DiagIds |-> 0]
DiagTask(rid, data, arms) ==
  Task("run_diagnostics", "", rid, data, 0, FakeChat, <<>>, arms)

InitDiag ==
  /\ running = FALSE
  /\ store = <<>>
  /\ nextId = 1
  /\ offset = 0
  /\ chat = NoChat
  /\ jobs = {}
  /\ tasks = [t \in Slots |-> IF t = 1 THEN DiagTask(0, NoData, NoArms) ELSE Idle]
  /\ now = Start
  /\ exact = TRUE
  /\ last = Quiet
  /\ solo = FALSE
  /\ fired = {}
  /\ logs = NoLogs
  /\ fsm = NoState
  /\ from_user = Operator
  /\ topics = <<>>
  /\ topics_cache = {}
  /\ setting = Stored(str(0))

\* scheduler.remove_all_jobs(); await set_setting("time_offset_minutes", v)
run_diagnostics_set_setting(v) ==
  /\ tasks[1].kind = "run_diagnostics"
  /\ jobs' = remove_all_jobs(jobs)
  /\ setting' = Stored(str(v))
  /\ offset' = _get_time_offset_minutes(setting')
  /\ tasks' = [tasks EXCEPT ![1] = DiagTask(0, NoData, NoArms)]
  /\ last' = Step("set_setting", 0, "")
  /\ UNCHANGED <<topics, topics_cache, from_user, fsm, fired, logs, running, store, nextId, chat, now, exact, solo>>

\* await add_reminder_to_scheduler(fake_bot, 1, 1, "t", rid, time, days, ...)
run_diagnostics_add_reminder_to_scheduler(rid, data) ==
  /\ tasks[1].kind = "run_diagnostics"
  /\ tasks[1].ids[rid] < MaxArms
  /\ jobs' = add_reminder_to_scheduler(jobs, FakeChat, rid, data, offset, now, exact)
  /\ tasks' = [tasks EXCEPT ![1] =
                 DiagTask(rid, data,
                          IF Skipped(data, offset, now, exact) THEN @.ids
                          ELSE [@.ids EXCEPT ![rid] = @ + 1])]
  /\ last' = Step("add_reminder_to_scheduler", rid,
                   IF Skipped(data, offset, now, exact) THEN "skipped" ELSE "armed")
  /\ UNCHANGED <<topics, topics_cache, setting, from_user, fsm, fired, logs, running, store, nextId, offset, chat, now, exact, solo>>

NextDiag ==
  \/ \E v \in DiagOffsets : run_diagnostics_set_setting(v)
  \/ \E rid \in DiagIds, data \in DiagForms :
       run_diagnostics_add_reminder_to_scheduler(rid, data)

SpecDiag == InitDiag /\ [][NextDiag]_vars

\* ------------------------------------------------------- creation dialogue
\* The handlers of the creation dialogue, each updating the FSMContext of the
\* operator. The operator presses only buttons of the bot's last message.
DialogDays == {0, 6}
DialogDates == Dates
StypeValues == {"periodic", "once"}
Required == {"thread_id", "text", "time", "days", "needs_confirm"}

update_data(f, key, d) == [f EXCEPT !.keys = @ \cup {key}, !.data = d]

Sorted(list) == SortSeq(list, LAMBDA a, b : a < b)

Dialogue(f) ==
  /\ running
  /\ Quiescent
  /\ ~fsm.pending
  /\ fsm' = f
  /\ last' = Quiet
  /\ UNCHANGED <<topics, topics_cache, setting, from_user, fired, logs, running, store, nextId, offset, chat, jobs, tasks, now,
                 exact, solo>>

\* the "Отмена" button with act="task_m": the menu is shown, the state and
\* the data are left as they are
task_m ==
  /\ fsm.screen \in {"text", "topics", "time", "type", "date", "audit_msg"}
  /\ Dialogue([fsm EXCEPT !.screen = ""])

\* the "Отмена" button with act="rems": list_reminders_h, await state.clear()
list_reminders_h ==
  /\ fsm.screen \in {"days", "audit"}
  /\ Dialogue(NoState)

\* start_add_rem: set_state(ReminderForm.text); the data are left as they are
start_add_rem ==
  /\ fsm.screen = ""
  /\ Dialogue([fsm EXCEPT !.state = "text", !.screen = "text"])

process_rem_text ==
  /\ fsm.state = "text"
  /\ fsm.screen = "text"
  /\ Dialogue([update_data(fsm, "text", fsm.data) EXCEPT !.screen = "topics"])

\* f"{h:02d}:{m:02d}"
f02d(n) == IF 0 <= n /\ n <= 9 THEN <<"0">> \o str(n) ELSE str(n)
strftime_HM(h, m) == f02d(h) \o <<":">> \o f02d(m)

\* the t_adj buttons of get_time_picker_kb
Adjustments ==
  {<<"+", "1", "h">>, <<"-", "1", "h">>, <<"+", "5", "m">>, <<"-", "5", "m">>,
   <<"m", "0", "0">>, <<"m", "1", "5">>, <<"m", "3", "0">>, <<"m", "4", "5">>}

\* adjust_time_h adding and subtracting without the % 24 and % 60
new_time_unwrapped(t_str, adj) ==
  LET h == int(split(t_str, ":")[1])
      m == int(split(t_str, ":")[2])
  IN  IF adj = <<"+", "1", "h">> THEN strftime_HM(h + 1, m)
      ELSE IF adj = <<"-", "1", "h">> THEN strftime_HM(h - 1, m)
      ELSE IF adj = <<"+", "5", "m">> THEN strftime_HM(h, m + 5)
      ELSE IF adj = <<"-", "5", "m">> THEN strftime_HM(h, m - 5)
      ELSE IF Head(adj) = "m" THEN strftime_HM(h, int(Tail(adj)))
      ELSE strftime_HM(h, m)

\* adjust_time_h: h, m = map(int, t_str.split(":")); the adjustment;
\* new_time = f"{h:02d}:{m:02d}"
new_time(t_str, adj) ==
  LET h == int(split(t_str, ":")[1])
      m == int(split(t_str, ":")[2])
  IN  IF adj = <<"+", "1", "h">> THEN strftime_HM((h + 1) % 24, m)
      ELSE IF adj = <<"-", "1", "h">> THEN strftime_HM((h - 1) % 24, m)
      ELSE IF adj = <<"+", "5", "m">> THEN strftime_HM(h, (m + 5) % 60)
      ELSE IF adj = <<"-", "5", "m">> THEN strftime_HM(h, (m - 5) % 60)
      ELSE IF Head(adj) = "m" THEN strftime_HM(h, int(Tail(adj)))
      ELSE strftime_HM(h, m)

\* process_s_top: update_data(thread_id=...); show_time_picker with its
\* default current_time "12:00" does update_data(temp_time=current_time)
process_s_top ==
  /\ fsm.screen = "topics"
  /\ Dialogue([update_data(fsm, "thread_id", fsm.data)
                 EXCEPT !.screen = "time", !.temp_time = strftime_HM(12, 0)])

\* adjust_time_h: data.get("temp_time", "12:00"), update_data(temp_time=new_time)
adjust_time_h(adj) ==
  /\ fsm.screen = "time"
  /\ Dialogue([fsm EXCEPT !.temp_time =
                 new_time(IF @ = <<>> THEN strftime_HM(12, 0) ELSE @, adj)])

time_confirm_h(time) ==
  /\ fsm.screen = "time"
  /\ Dialogue([update_data(fsm, "time", [fsm.data EXCEPT !.time = time])
                 EXCEPT !.screen = "type"])

process_schedule_type(stype) ==
  /\ fsm.screen = "type"
  /\ Dialogue(IF stype = "periodic"
              THEN [update_data(fsm, "days", [fsm.data EXCEPT !.days = DayList(<<>>)])
                      EXCEPT !.schedule_type = stype, !.screen = "days"]
              ELSE [fsm EXCEPT !.schedule_type = stype, !.state = "specific_date",
                               !.screen = "date"])

\* t_day: the pressed day is appended to the selection, or removed from it
t_day(day) ==
  /\ fsm.screen = "days"
  /\ LET sel == fsm.data.days.list
         new == IF \E i \in 1..Len(sel) : sel[i] = day
                THEN SelectSeq(sel, LAMBDA x : x # day)
                ELSE Append(sel, day)
     IN  Dialogue(update_data(fsm, "days", [fsm.data EXCEPT !.days = DayList(new)]))

all_d ==
  /\ fsm.screen = "days"
  /\ Dialogue([update_data(fsm, "days", [fsm.data EXCEPT !.days = AllDays])
                 EXCEPT !.screen = "audit"])

\* f_rem: an empty selection is refused; ",".join(sorted(days))
f_rem ==
  /\ fsm.screen = "days"
  /\ fsm.data.days # DayList(<<>>)
  /\ Dialogue([update_data(fsm, "days",
                           [fsm.data EXCEPT !.days = DayList(Sorted(@.list))])
                 EXCEPT !.screen = "audit"])

\* specific_date=iso_date, days=""
set_date(f, date) ==
  [update_data(f, "days", [f.data EXCEPT !.specific_date = date, !.days = DayList(<<>>)])
     EXCEPT !.keys = @ \cup {"specific_date"}]

\* process_date_button: a date button of the date screen
process_date_button(date) ==
  /\ fsm.screen = "date"
  /\ Dialogue([set_date(fsm, date) EXCEPT !.screen = "audit"])

\* process_specific_date: a date typed while the state is specific_date; the
\* next screen is sent by ask_audit_option_msg, whose cancel button is task_m
process_specific_date(date) ==
  /\ fsm.state = "specific_date"
  /\ fsm.screen = "date"
  /\ Dialogue([set_date(fsm, date) EXCEPT !.screen = "audit_msg"])

\* process_audit_option: needs_confirm, is_recurring from schedule_type, then
\* confirm_reminder_h, which clears the state when a required key is missing
process_audit_option(needs_confirm) ==
  LET f == [update_data(fsm, "needs_confirm",
                        [fsm.data EXCEPT !.needs_confirm = needs_confirm,
                                         !.is_recurring = (fsm.schedule_type = "periodic")])
              EXCEPT !.keys = @ \cup {"is_recurring"}]
  IN  /\ fsm.screen \in {"audit", "audit_msg"}
      /\ Dialogue(IF Required \subseteq f.keys THEN [f EXCEPT !.pending = TRUE]
                  ELSE NoState)

\* confirm_reminder_h with the data of the FSMContext
confirm_reminder_h(t) ==
  /\ fsm.pending
  /\ Quiescent
  /\ confirm_reminder_h_insert(t, fsm.data)

NextDialogue ==
  \/ main
  \/ shutdown
  \/ cmd_bind
  \/ task_m
  \/ list_reminders_h
  \/ start_add_rem
  \/ process_rem_text
  \/ process_s_top
  \/ \E time \in Times : time_confirm_h(time)
  \/ \E stype \in StypeValues : process_schedule_type(stype)
  \/ \E day \in DialogDays : t_day(day)
  \/ all_d
  \/ f_rem
  \/ \E date \in DialogDates : process_date_button(date)
  \/ \E date \in DialogDates : process_specific_date(date)
  \/ \E needs_confirm \in BOOLEAN : process_audit_option(needs_confirm)
  \/ \E t \in Slots : confirm_reminder_h(t)
  \/ \E t \in Slots : confirm_reminder_h_read(t)
  \/ \E t \in Slots : confirm_reminder_h_arm(t)

SpecDialogue == Init /\ [][NextDialogue]_vars

\* -------------------------------------------------------------- task_logs
\* bound on the completion-log entries written
MaxLogs == 2
\* cleanup_old_logs(30)
LogDays == 30
LogsMaxNow == Start + LogDays * MinutesPerDay + MaxTicks * TickMinutes

\* strftime("%Y-%m-%d %H:%M:%S") of an instant: the date, the hour and the
\* minute as fixed-width fields (the date as its day number)
strftime(t) ==
  <<t \div MinutesPerDay, (t % MinutesPerDay) \div MinutesPerHour, t % MinutesPerHour>>

\* SQLite's comparison of two TEXT timestamps: field by field from the left
TextLess(a, b) ==
  \/ a[1] < b[1]
  \/ a[1] = b[1] /\ a[2] < b[2]
  \/ a[1] = b[1] /\ a[2] = b[2] /\ a[3] < b[3]

\* cleanup_old_logs taking the limit from the system clock alone
cleanup_old_logs_system_clock(rows, offset_minutes, nowv) ==
  {l \in rows : ~TextLess(l.timestamp, strftime(nowv - LogDays * MinutesPerDay))}

\* cleanup_old_logs: DELETE FROM task_logs WHERE timestamp < limit
cleanup_old_logs(rows, offset_minutes, nowv) ==
  LET limit == strftime(nowv + offset_minutes - LogDays * MinutesPerDay)
  IN  {l \in rows : ~TextLess(l.timestamp, limit)}

\* task_done_callback: log_task_completion stamps the entry with the system
\* time plus the stored offset (`at` keeps the instant that was formatted)
task_done_callback(rid) ==
  /\ running
  /\ logs.next <= MaxLogs
  /\ logs' = [next |-> logs.next + 1,
              rows |-> logs.rows \cup
                         {[id |-> logs.next, reminder_id |-> rid,
                           timestamp |-> strftime(now + offset), at |-> now + offset]}]
  /\ last' = Step("log_task_completion", rid, "")
  /\ UNCHANGED <<topics, topics_cache, setting, from_user, fsm, fired, running, store, nextId, offset, chat, jobs, tasks, now, exact, solo>>

\* manual_clean, and the first step of run_maintenance_job
manual_clean ==
  /\ running
  /\ logs' = [logs EXCEPT !.rows = cleanup_old_logs(logs.rows, offset, now)]
  /\ last' = Step("cleanup_old_logs", 0, "")
  /\ UNCHANGED <<topics, topics_cache, setting, from_user, fsm, fired, running, store, nextId, offset, chat, jobs, tasks, now, exact, solo>>

\* set_setting("time_offset_minutes", v), as time_adjust and
\* time_input_finish write it
LogOffsets == {0 - MaxOffset, 0, MaxOffset}
set_setting(v) ==
  /\ running
  /\ v # offset
  /\ setting' = Stored(str(v))
  /\ offset' = _get_time_offset_minutes(setting')
  /\ last' = Quiet
  /\ UNCHANGED <<topics, topics_cache, from_user, fsm, fired, logs, running, store, nextId, chat, jobs, tasks, now, exact, solo>>

\* the system clock moves on: by a few minutes, MaxTicks times at most in a
\* row, or by the retention time
Sleeps == {TickMinutes, LogDays * MinutesPerDay}
sleep(minutes) ==
  /\ now + minutes <= LogsMaxNow
  /\ (now + minutes - Start) % (LogDays * MinutesPerDay) <= MaxTicks * TickMinutes
  /\ now' = now + minutes
  /\ last' = Quiet
  /\ UNCHANGED <<topics, topics_cache, setting, from_user, fsm, fired, logs, running, store, nextId, offset, chat, jobs, tasks, exact, solo>>

NextLogs ==
  \/ main
  \/ \E rid \in Ids : task_done_callback(rid)
  \/ manual_clean
  \/ \E v \in LogOffsets : set_setting(v)
  \/ \E minutes \in Sleeps : sleep(minutes)

SpecLogs == Init /\ [][NextLogs]_vars

\* The same process on a database whose writes may fail (locked, I/O error)
\* while a delivery callback is handling the outcome of its send
StoreFails ==
  \/ \E t \in Slots : send_reminder_job_delete_fails(t)
  \/ \E t \in Slots : send_reminder_job_toggle_fails(t)

NextFaulty ==
  \/ Next
  \/ StoreFails

SpecFaulty == Init /\ [][NextFaulty]_vars

\* ------------------------------------------------------------ concurrency
\* The coroutines of one event loop interleaved at their awaits: a handler, a
\* delivery callback and a reload each give way at every await, and the
\* scheduler starts a due job as a task of its own while others are pending.
\* The requests are those that arm or remove jobs: create, delete, offset
\* change, and the firings with their deliveries.
ConcForms ==
  {Data(t, DayList(<<0>>), NoDate, TRUE) : t \in Times} \cup
  {Data(t, AllDays, NoDate, FALSE) : t \in Times}
ConcOutcomes == {"Success", "Forbidden"}

\* the operator's create and delete dialogues are taken one at a time, and
\* the delete button pressed belongs to a listed reminder
NoDialogue == \A t \in Slots : tasks[t].kind \notin {"c_del", "confirm_reminder_h"}

BeginConc ==
  \/ \E t \in Slots, rid \in DOMAIN store : NoDialogue /\ c_del_delete(t, rid)
  \/ \E t \in Slots, data \in ConcForms :
       NoDialogue /\ confirm_reminder_h_insert(t, data)
  \/ \E t \in Slots, j \in jobs : scheduler_fire(t, j)
  \/ \E t \in Slots, delta \in Deltas : time_adjust_read(t, delta)

ContinueConc ==
  \/ \E t \in Slots : c_del_remove(t)
  \/ \E t \in Slots : confirm_reminder_h_read(t)
  \/ \E t \in Slots : confirm_reminder_h_arm(t)
  \/ \E t \in Slots, out \in ConcOutcomes : send_reminder_job_sent(t, out)
  \/ \E t \in Slots : send_reminder_job_delete(t)
  \/ \E t \in Slots : send_reminder_job_remove(t)
  \/ \E t \in Slots : time_adjust_write(t)
  \/ \E t \in Slots : reload_scheduler(t)
  \/ \E t \in Slots : load_reminders_list(t)
  \/ \E t \in Slots : load_reminders_offset(t)
  \/ \E t \in Slots : load_reminders_arm(t)

NextConc ==
  \/ main
  \/ Tick
  \/ BeginConc
  \/ ContinueConc

SpecConc == InitBound /\ [][NextConc]_vars

\* The interleaved coroutines with one-shot reminders only and no operator
\* delete: a stored row disappears only when a successful delivery consumes
\* it. A creation runs alone; firings, deliveries and reloads interleave.
OneShotForms == {Data(t, DayList(<<>>), d, FALSE) : t \in Times, d \in Dates}

BeginOneShot ==
  \/ \E t \in Slots, data \in OneShotForms :
       Quiescent /\ confirm_reminder_h_insert(t, data)
  \/ \E t \in Slots, j \in jobs : NoDialogue /\ scheduler_fire(t, j)
  \/ \E t \in Slots, delta \in Deltas : NoDialogue /\ time_adjust_read(t, delta)

ContinueOneShot ==
  \/ \E t \in Slots : confirm_reminder_h_read(t)
  \/ \E t \in Slots : confirm_reminder_h_arm(t)
  \/ \E t \in Slots, out \in ConcOutcomes : send_reminder_job_sent(t, out)
  \/ \E t \in Slots : send_reminder_job_delete(t)
  \/ \E t \in Slots : send_reminder_job_remove(t)
  \/ \E t \in Slots : time_adjust_write(t)
  \/ \E t \in Slots : reload_scheduler(t)
  \/ \E t \in Slots : load_reminders_list(t)
  \/ \E t \in Slots : load_reminders_offset(t)
  \/ \E t \in Slots : load_reminders_arm(t)

NextOneShot ==
  \/ main
  \/ Tick
  \/ BeginOneShot
  \/ ContinueOneShot

SpecOneShot == InitBound /\ [][NextOneShot]_vars

\* ------------------------------------------------------------------- users
\* Updates from any Telegram user who can see the bot's messages: the
\* dispatcher hands every update to the handler its filter selects
feed_update(u) ==
  /\ running
  /\ Quiescent
  /\ u # from_user
  /\ from_user' = u
  /\ last' = Quiet
  /\ UNCHANGED <<topics, topics_cache, setting, fsm, fired, logs, running, store, nextId, offset, chat, jobs, tasks,
                 now, exact, solo>>

BeginUsers ==
  \/ cmd_bind
  \/ \E rid \in Ids : tog_rem_h(rid)
  \/ \E t \in Slots, rid \in Ids : c_del_delete(t, rid)
  \* state.get_data() is keyed by user: only the operator holds a finished form
  \/ /\ from_user = Operator
     /\ \E t \in Slots, data \in ConcForms : confirm_reminder_h_insert(t, data)
  \/ \E t \in Slots, delta \in Deltas : time_adjust_read(t, delta)

ContinueUsers ==
  \/ \E t \in Slots : c_del_remove(t)
  \/ \E t \in Slots : confirm_reminder_h_read(t)
  \/ \E t \in Slots : confirm_reminder_h_arm(t)
  \/ \E t \in Slots : time_adjust_write(t)
  \/ \E t \in Slots : reload_scheduler(t)
  \/ \E t \in Slots : load_reminders_list(t)
  \/ \E t \in Slots : load_reminders_offset(t)
  \/ \E t \in Slots : load_reminders_arm(t)

NextUsers ==
  \/ main
  \/ \E u \in Users : feed_update(u)
  \/ Quiescent /\ BeginUsers
  \/ ContinueUsers

SpecUsers == Init /\ [][NextUsers]_vars

\* --------------------------------------------------------------- settings
\* The settings row as the process may find it: init_db seeds "0" with
\* INSERT OR IGNORE, so a row written by anything else stays as it is.
MaxRaw == 3
RawChars == {"0", "5", "-", "+", " ", "_", "x"}
RawTexts == UNION {[1..n -> RawChars] : n \in 0..MaxRaw}
RawRows == {NoRow} \cup {Stored(text) : text \in RawTexts}

InitSetting ==
  /\ running = FALSE
  /\ store = <<>>
  /\ nextId = 1
  /\ setting \in RawRows
  /\ offset = _get_time_offset_minutes(setting)
  /\ chat = NoChat
  /\ jobs = {}
  /\ tasks = [t \in Slots |-> Idle]
  /\ now = Start
  /\ exact = TRUE
  /\ last = Quiet
  /\ solo = FALSE
  /\ fired = {}
  /\ logs = NoLogs
  /\ fsm = NoState
  /\ from_user = Operator
  /\ topics = <<>>
  /\ topics_cache = {}

SettingForms == {f \in ConcForms : f.is_recurring}

BeginSetting ==
  \/ cmd_bind
  \/ \E t \in Slots, data \in SettingForms : confirm_reminder_h_insert(t, data)
  \/ \E t \in Slots, delta \in Deltas : time_adjust_read(t, delta)

ContinueSetting ==
  \/ \E t \in Slots : confirm_reminder_h_read(t)
  \/ \E t \in Slots : confirm_reminder_h_arm(t)
  \/ \E t \in Slots : time_adjust_write(t)
  \/ \E t \in Slots : reload_scheduler(t)
  \/ \E t \in Slots : load_reminders_list(t)
  \/ \E t \in Slots : load_reminders_offset(t)
  \/ \E t \in Slots : load_reminders_arm(t)

NextSetting ==
  \/ main
  \/ Quiescent /\ BeginSetting
  \/ ContinueSetting

SpecSetting == InitSetting /\ [][NextSetting]_vars

\* -------------------------------------------------------------- time input
\* what the operator may send while SettingsForm.time_now is set
InputFields ==
  {<<>>, <<"0">>, <<"2", "3">>, <<"2", "4">>, <<"5", "9">>, <<"6", "0">>, <<"x">>,
   <<" ", "7">>, <<"-", "1">>}
InputTexts ==
  InputFields \cup {f \o <<":">> \o g : f, g \in InputFields}
              \cup {f \o <<":">> \o f \o <<":">> \o f : f \in InputFields}

\* time_input_finish: h_str, m_str = raw.split(":"); h = int(h_str); m = int(m_str);
\* if not (0 <= h <= 23 and 0 <= m <= 59): raise ValueError
hm(raw) == LET parts == split(strip(raw), ":") IN <<int(parts[1]), int(parts[2])>>
Rejected(raw) ==
  LET parts == split(strip(raw), ":")
  IN  \/ Len(parts) # 2
      \/ ValueError(parts[1])
      \/ ValueError(parts[2])
      \/ ~(0 <= int(parts[1]) /\ int(parts[1]) <= 23)
      \/ ~(0 <= int(parts[2]) /\ int(parts[2]) <= 59)

\* time_input_finish: the whole handler up to await reload_scheduler
time_input_finish(t, raw) ==
  /\ running
  /\ FreeSlot(t)
  /\ IF Rejected(raw)
     THEN /\ last' = Step("time_input_finish", 0, "rejected")
          /\ UNCHANGED <<topics, topics_cache, setting, offset, tasks>>
     ELSE /\ setting' = Stored(str(offset_for(hm(raw), now)))
          /\ offset' = _get_time_offset_minutes(setting')
          /\ tasks' = [tasks EXCEPT ![t] =
                         Task("time_input_finish", "reload", 0, NoData, 0, NoChat, <<>>, <<>>)]
          /\ last' = Step("time_input_finish", 0, "set")
  /\ solo' = FALSE
  /\ UNCHANGED <<topics, topics_cache, from_user, fsm, fired, logs, running, store, nextId, chat, jobs, now, exact>>

\* the server clock when the operator opens the time menu, over the
\* database file as main finds it: empty, or holding a daily reminder
InitTimeInput ==
  /\ running = FALSE
  /\ \E n \in 0..1 :
       /\ nextId = n + 1
       /\ store = IF n = 0 THEN <<>>
                  ELSE add_reminder(<<>>, 1, Data(<<0, 0>>, AllDays, NoDate, TRUE))
  /\ offset = 0
  /\ chat = GroupChat
  /\ jobs = {}
  /\ tasks = [t \in Slots |-> Idle]
  /\ now \in {MinutesPerWeek - 1, MinutesPerWeek}
  /\ exact = TRUE
  /\ last = Quiet
  /\ solo = FALSE
  /\ fired = {}
  /\ logs = NoLogs
  /\ fsm = NoState
  /\ from_user = Operator
  /\ topics = <<>>
  /\ topics_cache = {}
  /\ setting = Stored(str(0))

NextTimeInput ==
  \/ main
  \/ Quiescent /\ \E t \in Slots, raw \in InputTexts : time_input_finish(t, raw)
  \/ \E t \in Slots : reload_scheduler(t)
  \/ \E t \in Slots : load_reminders_list(t)
  \/ \E t \in Slots : load_reminders_offset(t)
  \/ \E t \in Slots : load_reminders_arm(t)

SpecTimeInput == InitTimeInput /\ [][NextTimeInput]_vars

\* ------------------------------------------------------------- maintenance
\* five minutes before the Sunday 03:00 of the weekly_maintenance trigger
MaintenanceEve == 6 * MinutesPerDay + 3 * MinutesPerHour - TickMinutes
SendOutcomes == {"Success", "Error"}

InitMaintenance ==
  /\ running = FALSE
  /\ store = <<>>
  /\ nextId = 1
  /\ offset = 0
  /\ chat = GroupChat
  /\ jobs = {}
  /\ tasks = [t \in Slots |-> Idle]
  /\ now = MaintenanceEve
  /\ exact = TRUE
  /\ last = Quiet
  /\ solo = FALSE
  /\ fired = {}
  /\ logs = NoLogs
  /\ fsm = NoState
  /\ from_user = Operator
  /\ topics = <<>>
  /\ topics_cache = {}
  /\ setting = Stored(str(0))

\* the scheduler runs the due weekly_maintenance job: run_maintenance_job
\* starts and awaits cleanup_old_logs(30)
scheduler_fire_maintenance(t) ==
  /\ running
  /\ FreeSlot(t)
  /\ \E j \in jobs :
       /\ j.id = MaintenanceId
       /\ Due(j)
       /\ jobs' = (jobs \ {j}) \cup
                  {[j EXCEPT !.next = CronNext(j.hour, j.minute, j.dow, j.next, FALSE)]}
  /\ tasks' = [tasks EXCEPT ![t] =
                 Task("run_maintenance_job", "cleanup", 0, NoData, 0, NoChat, <<>>, <<>>)]
  /\ exact' = FALSE
  /\ last' = Step("scheduler_fire", 0, "cron")
  /\ solo' = FALSE
  /\ UNCHANGED <<topics, topics_cache, setting, from_user, fsm, fired, logs, running, store, nextId, offset, chat, now>>

\* run_maintenance_job: await cleanup_old_logs(30), which logs its own
\* failure and returns; then for admin_id in ADMIN_IDS
run_maintenance_job_cleanup(t, out) ==
  /\ tasks[t].kind = "run_maintenance_job"
  /\ tasks[t].pc = "cleanup"
  /\ logs' = IF out = "Success"
             THEN [logs EXCEPT !.rows = cleanup_old_logs(logs.rows, offset, now)]
             ELSE logs
  /\ tasks' = [tasks EXCEPT ![t] =
                 [@ EXCEPT !.pc = "send", !.ids = AdminList]]
  /\ last' = Step("cleanup_old_logs", 0, out)
  /\ solo' = FALSE
  /\ UNCHANGED <<topics, topics_cache, setting, from_user, fsm, fired, running, store, nextId, offset, chat, jobs, now, exact>>

\* run_maintenance_job without the try around bot.send_document: a failed
\* dispatch ends the loop in the outer except
run_maintenance_job_send_unguarded(t, out) ==
  /\ tasks[t].kind = "run_maintenance_job"
  /\ tasks[t].pc = "send"
  /\ tasks' = [tasks EXCEPT ![t] =
                 IF Len(tasks[t].ids) = 1 \/ out = "Error" THEN Idle
                 ELSE [@ EXCEPT !.ids = Tail(@)]]
  /\ last' = Step("send_document", Head(tasks[t].ids), out)
  /\ solo' = FALSE
  /\ UNCHANGED <<topics, topics_cache, setting, from_user, fsm, fired, logs, running, store, nextId, offset, chat, jobs, now, exact>>

\* run_maintenance_job: try: await bot.send_document(admin_id, doc) /
\* except Exception: logger.warning; then the next admin_id
run_maintenance_job_send(t, out) ==
  /\ tasks[t].kind = "run_maintenance_job"
  /\ tasks[t].pc = "send"
  /\ tasks' = [tasks EXCEPT ![t] =
                 IF Len(tasks[t].ids) = 1 THEN Idle
                 ELSE [@ EXCEPT !.ids = Tail(@)]]
  /\ last' = Step("send_document", Head(tasks[t].ids), out)
  /\ solo' = FALSE
  /\ UNCHANGED <<topics, topics_cache, setting, from_user, fsm, fired, logs, running, store, nextId, offset, chat, jobs, now, exact>>

NextMaintenance ==
  \/ main
  \/ Tick
  \/ \E t \in Slots : scheduler_fire_maintenance(t)
  \/ \E t \in Slots, out \in SendOutcomes : run_maintenance_job_cleanup(t, out)
  \/ \E t \in Slots, out \in SendOutcomes : run_maintenance_job_send(t, out)

SpecMaintenance == InitMaintenance /\ [][NextMaintenance]_vars

\* ------------------------------------------------------------ day shifting
\* longest weekday list, and largest |shift| in days
MaxDayList == 2
MaxShift == 15
\* the days column as process_schedule_type, t_day and all_d write it
DayTexts ==
  {join([i \in 1..Len(l) |-> str(l[i])], ",") :
     l \in UNION {[1..n -> 0..(DaysPerWeek - 1)] : n \in 0..MaxDayList}}
    \cup {<<"a", "l", "l">>}

InitShift ==
  /\ running = FALSE
  /\ store = <<>>
  /\ nextId = 1
  /\ offset = 0
  /\ chat = NoChat
  /\ jobs = {}
  /\ \E text \in DayTexts :
       tasks = [t \in Slots |->
                  IF t = 1
                  THEN Task("run_diagnostics", "days", 0, NoData, 0, NoChat, <<text>>, <<>>)
                  ELSE Idle]
  /\ now = Start
  /\ exact = TRUE
  /\ last = Quiet
  /\ solo = FALSE
  /\ fired = {}
  /\ logs = NoLogs
  /\ fsm = NoState
  /\ from_user = Operator
  /\ topics = <<>>
  /\ topics_cache = {}
  /\ setting = Stored(str(0))

\* run_diagnostics: _shift_days(days, shift); `rows` keeps the argument and
\* the results, `val` the shift
run_diagnostics_shift_days(shift) ==
  /\ tasks[1].kind = "run_diagnostics"
  /\ tasks[1].pc = "days"
  /\ tasks' = [tasks EXCEPT ![1] =
                 [@ EXCEPT !.pc = "shifted", !.val = shift,
                           !.rows = Append(@, _shift_days(tasks[1].rows[1], shift))]]
  /\ last' = Step("_shift_days", 0, "")
  /\ UNCHANGED <<topics, topics_cache, setting, from_user, fsm, fired, logs, running, store, nextId, offset, chat, jobs, now, exact, solo>>

\* _shift_days(shifted, -shift)
run_diagnostics_shift_back ==
  /\ tasks[1].kind = "run_diagnostics"
  /\ tasks[1].pc = "shifted"
  /\ tasks' = [tasks EXCEPT ![1] =
                 [@ EXCEPT !.pc = "restored",
                           !.rows = Append(@, _shift_days(tasks[1].rows[2], 0 - tasks[1].val))]]
  /\ last' = Step("_shift_days", 0, "back")
  /\ UNCHANGED <<topics, topics_cache, setting, from_user, fsm, fired, logs, running, store, nextId, offset, chat, jobs, now, exact, solo>>

NextShift ==
  \/ \E shift \in (0 - MaxShift)..MaxShift : run_diagnostics_shift_days(shift)
  \/ run_diagnostics_shift_back

SpecShift == InitShift /\ [][NextShift]_vars

\* ------------------------------------------------------------- time picker
NextPicker ==
  \/ main
  \/ task_m
  \/ start_add_rem
  \/ process_rem_text
  \/ process_s_top
  \/ \E adj \in Adjustments : adjust_time_h(adj)

SpecPicker == InitBound /\ [][NextPicker]_vars

\* ------------------------------------------------------------------ topics
\* largest thread id a topic update carries
MaxThread == 3
\* a name get_topic_name made up ("Топик <id>") and a name from Telegram
GenericNames == {"Topic"}
TopicNames == GenericNames \cup {"News"}

\* INSERT OR REPLACE INTO topics; topics_cache.add(thread_id)
set_topic_name(thread_id, name) ==
  /\ running
  /\ topics' = [i \in DOMAIN topics \cup {thread_id} |->
                  IF i = thread_id THEN name ELSE topics[i]]
  /\ topics_cache' = topics_cache \cup {thread_id}
  /\ last' = Step("set_topic_name", thread_id, "")
  /\ UNCHANGED <<setting, from_user, fsm, fired, logs, running, store, nextId, offset, chat, jobs, tasks, now, exact, solo>>

\* add_topic_if_not_exists: a cached id only gets a generic name replaced;
\* any other id gets INSERT OR IGNORE and topics_cache.add(thread_id)
add_topic_if_not_exists(thread_id, name) ==
  /\ running
  /\ IF thread_id \in topics_cache
     THEN /\ topics' = IF /\ name \notin GenericNames
                          /\ thread_id \in DOMAIN topics
                          /\ topics[thread_id] \in GenericNames
                       THEN [topics EXCEPT ![thread_id] = name]
                       ELSE topics
          /\ UNCHANGED topics_cache
     ELSE /\ topics' = IF thread_id \in DOMAIN topics THEN topics
                       ELSE [i \in DOMAIN topics \cup {thread_id} |->
                               IF i = thread_id THEN name ELSE topics[i]]
          /\ topics_cache' = topics_cache \cup {thread_id}
  /\ last' = Step("add_topic_if_not_exists", thread_id, "")
  /\ UNCHANGED <<setting, from_user, fsm, fired, logs, running, store, nextId, offset, chat, jobs, tasks, now, exact, solo>>

\* delete_topic: DELETE FROM topics; topics_cache.remove(thread_id) if present
delete_topic(thread_id) ==
  /\ running
  /\ topics' = [i \in DOMAIN topics \ {thread_id} |-> topics[i]]
  /\ topics_cache' = topics_cache \ {thread_id}
  /\ last' = Step("delete_topic", thread_id, "")
  /\ UNCHANGED <<setting, from_user, fsm, fired, logs, running, store, nextId, offset, chat, jobs, tasks, now, exact, solo>>

NextTopics ==
  \/ main
  \/ shutdown
  \/ \E thread_id \in 1..MaxThread, name \in TopicNames : set_topic_name(thread_id, name)
  \/ \E thread_id \in 1..MaxThread, name \in TopicNames :
       add_topic_if_not_exists(thread_id, name)
  \/ \E thread_id \in 1..MaxThread : delete_topic(thread_id)

SpecTopics == Init /\ [][NextTopics]_vars

\* ------------------------------------------------------------------ claims
JobsOf(J, rid) == {j \in J : j.id = job_id(rid)}
Armed(rid) == JobsOf(jobs, rid) # {}
ArmedIds == {j.id : j \in jobs} \ {MaintenanceId}
Present(rid) == rid \in DOMAIN store
\* the one-shot instant of a stored reminder has passed
Elapsed(rid) == Skipped(store[rid], offset, now, exact)
\* the coroutine that took the step has ended
Ended == \A t \in Slots : tasks'[t] # tasks[t] => tasks'[t] = Idle

\* C1: after load() on an empty registry (main) or after a reload that ran
\* alone, with a bound chat, the armed reminder job ids are exactly the ids of
\* the active stored reminders whose one-shot instant was not Skipped.
C1_LoadArmsExactlyTheActive ==
  (/\ chat # NoChat
   /\ \/ last.op = "main"
      \/ (last = Step("reload_scheduler", 0, "bound") /\ solo))
  => ArmedIds = {job_id(i) : i \in {k \in DOMAIN store :
                                      store[k].active /\ ~Elapsed(k)}}

C1_Witness ==
  /\ last = Step("reload_scheduler", 0, "bound")
  /\ solo
  /\ \E a, b \in DOMAIN store :
       /\ store[a].active /\ ~Elapsed(a) /\ Armed(a)
       /\ store[b].active /\ Elapsed(b) /\ ~Armed(b)

\* C2: in every quiescent state of a running process with a bound chat the
\* registry holds exactly one job for each active reminder whose schedule has
\* not elapsed and no job for any inactive or deleted reminder.
C2_QuiescentRegistryMatchesStore ==
  (running /\ Quiescent) =>
    \A rid \in Ids :
      /\ (Present(rid) /\ store[rid].active /\ ~Elapsed(rid))
            => Cardinality(JobsOf(jobs, rid)) = 1
      /\ (~Present(rid) \/ ~store[rid].active) => ~Armed(rid)

\* C3: a successful delivery of a job armed as non-recurring ends with the
\* reminder deleted from the store and no job for it in the registry; a
\* successful delivery of a job armed as recurring ends the callback at once
\* and leaves the store and the registry as they were.
C3_SuccessConsumesOnlyNonRecurring ==
  [][/\ \A t \in Slots :
          (/\ tasks[t].kind = "send_reminder_job"
           /\ tasks[t].pc = "send"
           /\ last' = Step("sent", tasks[t].rid, "Success"))
          => IF tasks[t].data.is_recurring
             THEN store' = store /\ jobs' = jobs /\ tasks'[t] = Idle
             ELSE tasks'[t] # Idle
     /\ (last'.op = "send_reminder_job" /\ last'.out = "consumed")
          => (last'.rid \notin DOMAIN store' /\ JobsOf(jobs', last'.rid) = {})
    ]_vars

C3_Witness ==
  /\ last.op = "send_reminder_job"
  /\ last.out = "consumed"
  /\ ~Present(last.rid)
  /\ ~Armed(last.rid)
  /\ \E r \in DOMAIN store : store[r].is_recurring /\ Armed(r)

\* C4: after a delivery that failed as InvalidTarget the reminder is inactive
\* and has no job, whatever its active flag was when the firing started.
C4_InvalidTargetDisables ==
  (last.op = "send_reminder_job" /\ last.out = "disabled" /\ Present(last.rid))
  => (~store[last.rid].active /\ ~Armed(last.rid))

\* C5: a delivery that fails as Forbidden, or in any way other than
\* InvalidTarget, ends the callback with the store and the registry unchanged,
\* for recurring and one-shot reminders alike.
C5_OtherFailuresChangeNothing ==
  [][(last'.op = "sent" /\ last'.out \in {"Forbidden", "BadRequest", "Error"})
       => (store' = store /\ jobs' = jobs /\ Ended)]_vars

C5_Witness ==
  /\ last = Step("sent", last.rid, "Forbidden")
  /\ Quiescent
  /\ Present(last.rid)
  /\ store[last.rid].specific_date # NoDate
  /\ store[last.rid].active
  /\ \E r \in DOMAIN store : store[r].specific_date = NoDate /\ Armed(r)

\* C6: however often an id is armed, the registry holds at most one job for
\* it, and after an arm that reached add_job that one job carries the
\* parameters of the latest call.
C6_ArmReplaces ==
  /\ \A rid \in DiagIds : Cardinality(JobsOf(jobs, rid)) <= 1
  /\ (last.op = "add_reminder_to_scheduler" /\ last.out = "armed") =>
       LET d == tasks[1].data
           c == convert_bot_time_to_server(d.time, offset)
       IN  \E j \in jobs :
             /\ JobsOf(jobs, last.rid) = {j}
             /\ j.chat_id = FakeChat
             /\ j.thread_id = d.thread_id
             /\ j.text = d.text
             /\ j.needs_confirm = d.needs_confirm
             /\ IF d.specific_date # NoDate
                THEN /\ j.trigger = "date"
                     /\ j.run_date = fire_time_of(d.specific_date, d.time, offset)
                     /\ ~j.is_recurring
                ELSE /\ j.trigger = "cron"
                     /\ j.hour = c[1] /\ j.minute = c[2]
                     /\ j.dow = shift_days(d.days, c[3])
                     /\ j.is_recurring = d.is_recurring

C6_Witness ==
  /\ last = Step("add_reminder_to_scheduler", last.rid, "armed")
  /\ tasks[1].ids[last.rid] >= 2
  /\ Cardinality(JobsOf(jobs, last.rid)) = 1
  /\ \E j \in jobs : j.id # job_id(last.rid) /\ j.trigger # "date"
  /\ tasks[1].data.specific_date # NoDate

\* C7: after the operator toggles a reminder the registry follows: no job
\* when it is now inactive, a job when it is now active, the chat is bound and
\* the schedule is not Skipped.
C7_ToggleUpdatesRegistry ==
  (last.op = "tog_rem_h" /\ Present(last.rid))
  => /\ ~store[last.rid].active => ~Armed(last.rid)
     /\ (store[last.rid].active /\ chat # NoChat /\ ~Elapsed(last.rid))
          => Armed(last.rid)

\* C8 as stated: a reminder created while a chat is bound is armed when the
\* operation completes.
C8_CreateAlwaysArms ==
  (last.op = "confirm_reminder_h" /\ last.out = "bound") => Armed(last.rid)

\* C8 amended: when the creation completes the reminder is in the store; with
\* a chat bound it has the job compiled from its schedule under the current
\* offset unless its one-shot instant is Skipped, and then it has none; with
\* no chat bound it has no job.
C8_CreateArmsUnlessSkipped ==
  (last.op = "confirm_reminder_h") =>
    /\ Present(last.rid)
    /\ store[last.rid].active
    /\ IF last.out = "bound" /\ ~Elapsed(last.rid)
       THEN \E j \in jobs :
              /\ JobsOf(jobs, last.rid) = {j}
              /\ j.chat_id = chat
              /\ IF store[last.rid].specific_date # NoDate
                 THEN /\ j.trigger = "date"
                      /\ j.run_date + offset
                           = store[last.rid].specific_date * MinutesPerDay
                             + store[last.rid].time[1] * MinutesPerHour
                             + store[last.rid].time[2]
                 ELSE /\ j.trigger = "cron"
                      /\ (j.hour * MinutesPerHour + j.minute + offset) % MinutesPerDay
                           = store[last.rid].time[1] * MinutesPerHour
                             + store[last.rid].time[2]
       ELSE ~Armed(last.rid)

C8_Witness ==
  /\ last.op = "confirm_reminder_h"
  /\ last.out = "bound"
  /\ offset # 0
  /\ Armed(last.rid)
  /\ \E r \in DOMAIN store : Elapsed(r) /\ ~Armed(r)

\* C9: deleting a reminder removes its row and its job and nothing else; it
\* completes also when there is no job or no row.
C9_DeleteRemovesRowAndJob ==
  [][/\ (last'.op = "c_del_delete")
          => /\ DOMAIN store' = DOMAIN store \ {last'.rid}
             /\ \A i \in DOMAIN store' : store'[i] = store[i]
             /\ jobs' = jobs /\ offset' = offset /\ chat' = chat
             /\ ~Ended
     /\ (last'.op = "c_del")
          => /\ jobs' = {j \in jobs : j.id # job_id(last'.rid)}
             /\ store' = store /\ offset' = offset /\ chat' = chat
             /\ last'.rid \notin DOMAIN store'
             /\ Ended
    ]_vars

C9_Witness ==
  /\ last = Step("c_del", last.rid, "absent")
  /\ Quiescent
  /\ DOMAIN store # {}
  /\ ArmedIds # {}

\* C10: the weekly compile of time HH:MM under an offset gives the hour and
\* minute of (logical minutes - offset) mod 1440 and maps each listed weekday
\* d to (d + dayshift) mod 7, dayshift = floor((logical minutes - offset) /
\* 1440), keeping the order and the number of the days; "all" stays "all".
C10_WeeklyCompile ==
  (/\ last.op = "add_reminder_to_scheduler"
   /\ tasks[1].data.specific_date = NoDate)
  => LET d == tasks[1].data
         physical == d.time[1] * 60 + d.time[2] - offset
         dayshift == IF physical >= 0 THEN physical \div 1440
                     ELSE 0 - ((1439 - physical) \div 1440)
         tod == physical - dayshift * 1440
     IN  \E j \in jobs :
           /\ JobsOf(jobs, last.rid) = {j}
           /\ j.trigger = "cron"
           /\ j.hour \in 0..23 /\ j.minute \in 0..59
           /\ j.hour * 60 + j.minute = tod
           /\ tod \in 0..1439
           /\ IF d.days.all THEN j.dow = AllDays
              ELSE /\ ~j.dow.all
                   /\ Len(j.dow.list) = Len(d.days.list)
                   /\ \A i \in 1..Len(d.days.list) :
                        /\ j.dow.list[i] \in 0..6
                        /\ \E k \in 0 - 1..1 :
                             j.dow.list[i] = d.days.list[i] + dayshift + 7 * k

\* Monday 00:30 at +120 is Sunday 22:30 and "0,2,6" becomes "6,1,5"
C10_Witness ==
  /\ last.op = "add_reminder_to_scheduler"
  /\ offset = 120
  /\ tasks[1].data.time = <<0, 30>>
  /\ tasks[1].data.days = DayList(<<0, 2, 6>>)
  /\ \E j \in JobsOf(jobs, last.rid) :
       j.hour = 22 /\ j.minute = 30 /\ j.dow = DayList(<<6, 1, 5>>)

\* C11: a weekly reminder whose days are the sentinel "all" compiles, under
\* every offset and day shift, to a cron trigger with no weekday restriction:
\* the sentinel is handed on unchanged and never becomes a list.
C11_AllDaysStaysAll ==
  (/\ last.op = "add_reminder_to_scheduler"
   /\ tasks[1].data.specific_date = NoDate
   /\ tasks[1].data.days.all)
  => \A j \in JobsOf(jobs, last.rid) :
       /\ j.trigger = "cron"
       /\ j.dow.all
       /\ j.dow.list = <<>>
       /\ CronDays(j.dow) = 0..6

\* 00:30 under +1560 is 22:30 two days earlier, and the days are still "all"
C11_Witness ==
  /\ last.op = "add_reminder_to_scheduler"
  /\ tasks[1].data.days.all
  /\ tasks[1].data.specific_date = NoDate
  /\ tasks[1].data.time = <<0, 30>>
  /\ offset = 1560
  /\ \E j \in JobsOf(jobs, last.rid) : j.hour = 22 /\ j.minute = 30 /\ j.dow = AllDays

\* the physical instant of a stored dated reminder under the stored offset
Instant(rid) ==
  store[rid].specific_date * 1440 + store[rid].time[1] * 60 + store[rid].time[2]
    - offset

\* the dated reminders an operation that has just completed has compiled: the
\* one created, or every active one after a reload that ran alone
JustCompiled ==
  IF last.op = "confirm_reminder_h" /\ last.out = "bound" THEN {last.rid}
  ELSE IF last = Step("reload_scheduler", 0, "bound") /\ solo
       THEN {r \in DOMAIN store : store[r].active}
       ELSE {}

\* C12 as stated: a one-shot reminder is armed only when its physical instant
\* is strictly after now, and is Skipped when the instant equals now.
C12_SkippedUnlessStrictlyFuture ==
  \A r \in JustCompiled :
    (r \in DOMAIN store /\ store[r].specific_date # NoDate)
      => (Armed(r) <=> Instant(r) > now)

\* C12 amended: a one-shot reminder is Skipped when its physical instant is
\* strictly before the clock reading and armed, as a date job at that instant,
\* when it is after it or exactly equal to it.
C12_SkippedOnlyWhenBefore ==
  \A r \in JustCompiled :
    (r \in DOMAIN store /\ store[r].specific_date # NoDate)
      => /\ Instant(r) < now => ~Armed(r)
         /\ Instant(r) > now => Armed(r)
         /\ Instant(r) = now => (Armed(r) <=> exact)
         /\ \A j \in JobsOf(jobs, r) : j.trigger = "date" /\ j.run_date = Instant(r)

\* a dated reminder created at the very instant it is due is armed
C12_Witness ==
  /\ last.op = "confirm_reminder_h"
  /\ last.out = "bound"
  /\ Present(last.rid)
  /\ store[last.rid].specific_date # NoDate
  /\ Instant(last.rid) = now
  /\ exact
  /\ Armed(last.rid)

\* C13: whenever a one-shot job is armed it is a single-date trigger whose
\* run instant is the logical date and time minus the offset: the run day is
\* the date moved by the whole days the subtraction carries, the time of day
\* is (logical minutes - offset) mod 1440.
C13_DateJobInstant ==
  (/\ last = Step("add_reminder_to_scheduler", last.rid, "armed")
   /\ tasks[1].data.specific_date # NoDate)
  => LET d == tasks[1].data
         physical == d.time[1] * 60 + d.time[2] - offset
         carry == IF physical >= 0 THEN physical \div 1440
                  ELSE 0 - ((1439 - physical) \div 1440)
     IN  \E j \in jobs :
           /\ JobsOf(jobs, last.rid) = {j}
           /\ j.trigger = "date"
           /\ ~j.is_recurring
           /\ j.next = j.run_date
           /\ j.run_date = (d.specific_date + carry) * 1440 + (physical - carry * 1440)
           /\ physical - carry * 1440 \in 0..1439

\* 23:30 on day 10 under -1560 runs at 01:30 on day 12
C13_Witness ==
  /\ last = Step("add_reminder_to_scheduler", last.rid, "armed")
  /\ tasks[1].data.specific_date = 10
  /\ tasks[1].data.time = <<23, 30>>
  /\ offset = 0 - 1560
  /\ \E j \in JobsOf(jobs, last.rid) : j.trigger = "date" /\ j.run_date = 12 * 1440 + 90

\* job j is what the stored row of its reminder compiles to under the stored
\* offset: the date instant, or the cron time of day and shifted weekdays
CompiledUnderOffset(j) ==
  /\ j.rid \in DOMAIN store
  /\ LET r == store[j.rid]
         physical == r.time[1] * 60 + r.time[2] - offset
         dayshift == IF physical >= 0 THEN physical \div 1440
                     ELSE 0 - ((1439 - physical) \div 1440)
     IN  IF r.specific_date # NoDate
         THEN /\ j.trigger = "date"
              /\ j.run_date = r.specific_date * 1440 + physical
         ELSE /\ j.trigger = "cron"
              /\ j.hour * 60 + j.minute = physical - dayshift * 1440
              /\ j.dow.all = r.days.all
              /\ Len(j.dow.list) = Len(r.days.list)
              /\ \A i \in 1..Len(r.days.list) :
                   (j.dow.list[i] - r.days.list[i] - dayshift) % 7 = 0

\* C14: both offset handlers end with a reload, so when no handler is in
\* progress every armed reminder job is the compilation of its stored row
\* under the stored offset, and right after an offset change every active
\* reminder that is not Skipped has such a job.
C14_TriggersFollowOffset ==
  /\ (running /\ Quiescent) =>
       \A j \in jobs : j.id # MaintenanceId => CompiledUnderOffset(j)
  /\ (last = Step("reload_scheduler", 0, "bound") /\ solo) =>
       \A r \in DOMAIN store :
         (store[r].active /\ ~Elapsed(r)) => Cardinality(JobsOf(jobs, r)) = 1

\* an offset change has completed with a weekly and a dated reminder armed
C14_Witness ==
  /\ last = Step("reload_scheduler", 0, "bound")
  /\ solo
  /\ offset = 5
  /\ \E j \in jobs : j.trigger = "cron" /\ j.id # MaintenanceId
                       /\ j.hour = 23 /\ j.minute = 55 /\ j.dow = DayList(<<6>>)
  /\ \E j \in jobs : j.trigger = "date" /\ j.run_date = 7 * 1440 - 5

\* C15: after a load (startup, or a reload that ran alone) with a bound chat,
\* a reminder whose schedule cannot be compiled is still in the store and has
\* no job, and every other active reminder that is not Skipped is armed,
\* wherever it stands in the store relative to the malformed one.
C15_LoadOmitsOnlyTheMalformed ==
  (/\ chat # NoChat
   /\ \/ last.op = "main"
      \/ (last.op = "reload_scheduler" /\ last.out \in {"bound", "aborted"} /\ solo))
  => \A r \in DOMAIN store :
       /\ Raises(store[r]) => ~Armed(r)
       /\ (store[r].active /\ ~Raises(store[r]) /\ ~Elapsed(r)) => Armed(r)

\* C16: while no group chat is bound no reminder job is armed: startup and
\* reload leave the job store with the maintenance job only, and creating a
\* reminder arms nothing.
C16_UnboundArmsNothing ==
  chat = NoChat => /\ ArmedIds = {}
                   /\ \A j \in jobs : j.chat_id = NoChat

\* unbound, a reminder has been created and the process restarted
C16_Witness ==
  /\ chat = NoChat
  /\ last.op = "main"
  /\ jobs # {}
  /\ \E r \in DOMAIN store : store[r].active /\ ~Elapsed(r) /\ ~Raises(store[r])

\* the maintenance jobs in a job store
Maintenance(J) == {j \in J : j.id = MaintenanceId}

\* C17: while the process runs exactly one maintenance job is armed, a cron
\* trigger for Sunday 03:00 of the system clock whatever the offset and the
\* binding, and no step of a running process removes or changes it.
C17_OneMaintenanceJob ==
  /\ [](running =>
         /\ Cardinality(Maintenance(jobs)) = 1
         /\ \A j \in Maintenance(jobs) :
              /\ j.trigger = "cron"
              /\ j.hour = 3 /\ j.minute = 0
              /\ j.dow = DayList(<<6>>)
              /\ j.next % 10080 = 6 * 1440 + 180)
  /\ [][(running /\ running') => Maintenance(jobs') = Maintenance(jobs)]_vars

\* after a reload under a changed offset, with a reminder consumed before it
C17_Witness ==
  /\ running
  /\ last.op = "reload_scheduler"
  /\ offset # 0
  /\ chat # NoChat
  /\ ArmedIds # {}
  /\ nextId > Cardinality(DOMAIN store) + 1
  /\ Cardinality(Maintenance(jobs)) = 1

\* C18: the scheduler never runs the date trigger of a reminder whose date
\* trigger it has already run once, whatever deliveries, offset changes,
\* reloads and restarts happened in between.
C18_OneShotFiresAtMostOnce ==
  [][\A j \in jobs :
       (j.trigger = "date" /\ j \notin jobs' /\ last' = Step("scheduler_fire", j.rid, "date"))
         => j.rid \notin fired]_vars

\* C19: once a reload and the creates, deletes and deliveries interleaved with
\* it have all completed, the registry holds no job for a reminder that is
\* absent from the store or inactive and holds a job for every active
\* reminder that is not Skipped.
C19_ReloadExclusive ==
  (running /\ Quiescent) =>
    \A rid \in Ids :
      /\ Armed(rid) => (Present(rid) /\ store[rid].active)
      /\ (Present(rid) /\ store[rid].active /\ ~Elapsed(rid)) => Armed(rid)

\* a delivery callback suspended at bot.send_message
Pending(t) == tasks[t].kind = "send_reminder_job" /\ tasks[t].pc = "send"

\* C20: while the delivery of one firing is pending, the scheduler can still
\* start the delivery callback of any other reminder whose job is due.
C20_PendingDeliveryDoesNotBlock ==
  \A t \in Slots, u \in Slots, j \in jobs :
    (/\ running
     /\ Pending(t)
     /\ j.id # MaintenanceId
     /\ j.rid # tasks[t].rid
     /\ Due(j)
     /\ FreeSlot(u))
    => ENABLED scheduler_fire(u, j)

\* two deliveries pending at once: the second was started while the first,
\* of another reminder, had not completed
C20_Witness ==
  /\ Pending(1)
  /\ Pending(2)
  /\ tasks[1].rid # tasks[2].rid
  /\ last.op = "scheduler_fire"
  /\ last.rid = tasks[2].rid

\* C21: a delivery callback never ends by raising, whatever the delivery
\* outcome and also when the store operation that handles the outcome fails;
\* the scheduler keeps running.
C21_FiringContainsFailures ==
  /\ ~(last.op = "send_reminder_job" /\ last.out = "raised")
  /\ (last.op = "send_reminder_job" => running)

\* a stored reminder with a well-formed date
Dated(S, rid) == rid \in DOMAIN S /\ S[rid].specific_date \notin {NoDate, BadDate}

\* C22: a one-shot reminder whose instant has elapsed and that is not armed
\* stays so: while the offset is unchanged no step arms it and its instant
\* stays elapsed, and no create, load or reload deletes or changes its row.
C22_SkippedStaysDropped ==
  [][\A rid \in Ids :
       (Dated(store, rid) /\ Elapsed(rid) /\ ~Armed(rid)) =>
         /\ (offset' = offset /\ Dated(store', rid)) =>
               /\ JobsOf(jobs', rid) = {}
               /\ Skipped(store'[rid], offset', now', exact')
         /\ last'.op \in {"main", "reload_scheduler", "confirm_reminder_h"} =>
               (rid \in DOMAIN store' /\ store'[rid] = store[rid])]_vars

\* a reload has gone over an active one-shot that was never fired and whose
\* instant has elapsed, and has not armed it
C22_Witness ==
  /\ last = Step("reload_scheduler", 0, "bound")
  /\ \E rid \in Ids :
       /\ Dated(store, rid)
       /\ store[rid].active
       /\ Elapsed(rid)
       /\ ~Armed(rid)
       /\ rid \notin fired

C24_PruneOlderThanThirtyDays ==
  [][last'.op = "cleanup_old_logs" =>
       /\ logs'.rows = {l \in logs.rows : ~(l.at < now + offset - 30 * 1440)}
       /\ logs'.next = logs.next]_vars

\* a pruning under a non-zero offset has deleted one entry and kept one
\* stamped exactly 30 days before the logical now
C24_Witness ==
  /\ last.op = "cleanup_old_logs"
  /\ offset # 0
  /\ logs.next = 3
  /\ \E l \in logs.rows :
       /\ logs.rows = {l}
       /\ l.at = now + offset - 30 * 1440

\* C25: every date job is armed as non-recurring whatever the stored flag
\* says, its callback is started as non-recurring, and a successful delivery
\* of a dated reminder goes on to delete the row and ends with the row gone
\* and no job for it.
C25_DatedIsArmedNonRecurring ==
  /\ [](\A j \in jobs : j.trigger = "date" => ~j.is_recurring)
  /\ [][/\ \A t \in Slots :
           (tasks'[t] # tasks[t] /\ last'.op = "scheduler_fire" /\ last'.out = "date")
             => ~tasks'[t].data.is_recurring
        /\ \A t \in Slots :
           (/\ tasks[t].kind = "send_reminder_job"
            /\ tasks[t].pc = "send"
            /\ Dated(store, tasks[t].rid)
            /\ last' = Step("sent", tasks[t].rid, "Success"))
           => tasks'[t].pc = "delete"
        /\ \A t \in Slots :
           (tasks[t].pc = "delete" /\ tasks'[t].pc = "remove")
             => tasks[t].rid \notin DOMAIN store'
        /\ (last'.op = "send_reminder_job" /\ last'.out = "consumed")
             => (last'.rid \notin DOMAIN store' /\ JobsOf(jobs', last'.rid) = {})
       ]_vars

\* the delivery of a dated reminder stored as recurring has succeeded and the
\* callback is about to delete it
C25_Witness ==
  \E t \in Slots :
    /\ tasks[t].kind = "send_reminder_job"
    /\ tasks[t].pc = "delete"
    /\ last = Step("sent", tasks[t].rid, "Success")
    /\ Dated(store, tasks[t].rid)
    /\ store[tasks[t].rid].is_recurring
    /\ tasks[t].rid \in fired

\* C26: every reminder the creation dialogue stores is either weekly, with no
\* specific date and is_recurring true, or one-shot, with a specific date and
\* is_recurring false.
C26_WeeklyOrOneShot ==
  \A rid \in DOMAIN store :
    \/ store[rid].specific_date = NoDate /\ store[rid].is_recurring
    \/ store[rid].specific_date # NoDate /\ ~store[rid].is_recurring

\* the delivery callback of reminder rid is in flight
Delivering(rid) ==
  \E t \in Slots : tasks[t].kind = "send_reminder_job" /\ tasks[t].rid = rid

\* C27: once the successful delivery of a one-shot reminder has consumed it
\* (row deleted, callback ended), no job for it is armed, also when a reload
\* triggered by an offset change ran interleaved with the delivery; and no
\* delivery succeeds for a reminder that has already been consumed.
C27_ConsumedOneShotStaysUnarmed ==
  /\ [](\A rid \in 1..(nextId - 1) :
          (rid \notin DOMAIN store /\ ~Delivering(rid)) => ~Armed(rid))
  /\ [][\A rid \in 1..(nextId - 1) :
          last' = Step("sent", rid, "Success") => rid \in DOMAIN store]_vars

\* C28: no offset adjustment is lost: the write of every adjustment moves the
\* stored offset by the delta of its button, so that two adjustments d1 and
\* d2 started from offset o end with o + d1 + d2 in whatever order their
\* reads, writes and reloads are taken.
C28_AdjustmentsNotLost ==
  [][\A t \in Slots :
       (tasks[t].kind = "time_adjust" /\ tasks[t].pc = "write" /\ tasks'[t].pc = "reload")
         => (offset' - offset) \in Deltas]_vars

\* C29: a request from a user who is not in ADMIN_IDS changes neither the
\* reminder store, nor the clock offset, nor the chat binding, nor the
\* registry.
C29_OnlyAdminsChangeState ==
  [][(running /\ from_user \notin ADMIN_IDS /\ from_user' = from_user)
       => (store' = store /\ offset' = offset /\ chat' = chat /\ jobs' = jobs)]_vars

\* C30: reading the clock offset always yields an integer and changes
\* nothing: the integer that was written when the row holds a numeral, 0
\* when the row is missing or its text is no numeral; a compilation that
\* has read the offset then works with that value, 0 in the latter case.
Reading(t) ==
  \/ tasks[t].kind = "confirm_reminder_h" /\ tasks[t].pc = "read"
  \/ tasks[t].kind \in Reloaders /\ tasks[t].pc = "offset"
Compiling(t) == tasks[t].pc = "arm"
Unreadable(row) == ~row.present \/ ValueError(row.value)
C30_ReadOffsetTotal ==
  /\ [](offset \in Int)
  /\ [](\A n \in (0 - MaxOffset)..MaxOffset : setting = Stored(str(n)) => offset = n)
  /\ [](Unreadable(setting) => offset = 0)
  /\ [](\A t \in Slots : (Compiling(t) /\ Unreadable(setting)) => tasks[t].val = 0)
  /\ [][\A t \in Slots : (Reading(t) /\ tasks'[t] # tasks[t])
           => /\ setting' = setting
              /\ store' = store
              /\ chat' = chat
              /\ jobs' = jobs
              /\ tasks'[t].pc = "arm" => tasks'[t].val = offset]_vars

\* C30 witness: the row holds text that is no numeral and a compilation is
\* about to add a job with the offset it read
C30_Witness ==
  /\ setting.present
  /\ ValueError(setting.value)
  /\ \E t \in Slots : Compiling(t) /\ tasks[t].kind = "confirm_reminder_h"

\* C31: entering HH:MM with 0 <= HH <= 23 and 0 <= MM <= 59 stores the
\* difference in whole minutes between the entered time of day and the
\* server's time of day, a value in -1439..1439, after which server time
\* plus offset shows the entered HH:MM; a text that is not two numbers
\* around one colon, or whose numbers are out of range, changes neither the
\* offset nor the registry.
AllDigits(f) == Len(f) \in {1, 2} /\ \A i \in 1..Len(f) : f[i] \in Digit
Entered(raw) ==
  LET colons == {i \in 1..Len(raw) : raw[i] = ":"}
      c == CHOOSE i \in colons : TRUE
      f == SubSeq(raw, 1, c - 1)
      g == SubSeq(raw, c + 1, Len(raw))
  IN  IF Cardinality(colons) = 1 /\ AllDigits(f) /\ AllDigits(g)
      THEN <<NumeralValue(f), NumeralValue(g)>>
      ELSE <<0 - 1, 0 - 1>>
InDay(e) == 0 <= e[1] /\ e[1] <= 23 /\ 0 <= e[2] /\ e[2] <= 59
C31_TimeInputSetsOffset ==
  [][\A t \in Slots, raw \in InputTexts :
       (last'.op = "time_input_finish" /\ FreeSlot(t) /\ time_input_finish(t, raw)) =>
         LET e == Entered(raw)
             bad == \/ Cardinality({i \in 1..Len(raw) : raw[i] = ":"}) # 1
                    \/ \E i \in 1..Len(raw) : raw[i] \in {"x", "-"}
                    \/ raw[1] = ":"
                    \/ raw[Len(raw)] = ":"
                    \/ (e # <<0 - 1, 0 - 1>> /\ ~InDay(e))
         IN  /\ InDay(e) =>
                  /\ offset' = (e[1] * MinutesPerHour + e[2]) - (now % MinutesPerDay)
                  /\ offset' >= 0 - (MinutesPerDay - 1)
                  /\ offset' <= MinutesPerDay - 1
                  /\ (now + offset') % MinutesPerDay = e[1] * MinutesPerHour + e[2]
                  /\ setting' = Stored(str(offset'))
             /\ bad => (offset' = offset /\ setting' = setting /\ jobs' = jobs)]_vars

\* C31 witness: an entered 23:59 just after midnight has stored 1439 and the
\* registry has been rebuilt under it
C31_Witness ==
  /\ offset = MinutesPerDay - 1
  /\ last = Step("reload_scheduler", 0, "bound")
  /\ jobs # {}

\* C32: a maintenance run goes on to the snapshot dispatch whether or not
\* log pruning failed, attempts the dispatch to every administrator in turn
\* whether or not an earlier dispatch failed, and ends without raising.
C32_MaintenanceDispatchesToAll ==
  [][\A t \in Slots :
       (tasks[t].kind = "run_maintenance_job" /\ tasks'[t] # tasks[t]) =>
         /\ running'
         /\ last'.out \in SendOutcomes
         /\ tasks[t].pc = "cleanup" =>
              (tasks'[t].pc = "send" /\ tasks'[t].ids = AdminList)
         /\ tasks[t].pc = "send" =>
              /\ last'.op = "send_document"
              /\ last'.rid = Head(tasks[t].ids)
              /\ IF Len(tasks[t].ids) = 1 THEN tasks'[t] = Idle
                 ELSE tasks'[t].pc = "send" /\ tasks'[t].ids = Tail(tasks[t].ids)]_vars

\* C32 witness: the dispatch to the first administrator has just failed and
\* the run is about to try the last one
C32_Witness ==
  /\ last = Step("send_document", Operator, "Error")
  /\ \E t \in Slots : tasks[t].kind = "run_maintenance_job" /\ tasks[t].ids = <<Deputy>>

\* C33: for a comma-joined list of weekdays 0..6 and any shift s, the
\* shifted text is again a comma-joined list of weekdays 0..6 of the same
\* length, shifting it back by -s gives the original text, and a shift by
\* a multiple of 7 gives the original text.
WeekdayText(text) ==
  /\ Len(text) % 2 = 1
  /\ \A i \in 1..Len(text) :
       IF i % 2 = 1 THEN text[i] \in {"0", "1", "2", "3", "4", "5", "6"}
       ELSE text[i] = ","
C33_ShiftInvertible ==
  (tasks[1].kind = "run_diagnostics" /\ tasks[1].pc \in {"shifted", "restored"}
     /\ WeekdayText(tasks[1].rows[1]))
  => /\ WeekdayText(tasks[1].rows[2])
     /\ Len(tasks[1].rows[2]) = Len(tasks[1].rows[1])
     /\ tasks[1].val % DaysPerWeek = 0 => tasks[1].rows[2] = tasks[1].rows[1]
     /\ tasks[1].pc = "restored" => tasks[1].rows[3] = tasks[1].rows[1]

\* C33 witness: "0,6" shifted by -8 is "6,5" and has been shifted back
C33_Witness ==
  /\ tasks[1].kind = "run_diagnostics"
  /\ tasks[1].pc = "restored"
  /\ tasks[1].val = 0 - 8
  /\ tasks[1].rows = <<(<<"0", ",", "6">>), (<<"6", ",", "5">>), (<<"0", ",", "6">>)>>

\* C34: while the time picker is shown, the selected time is two digits,
\* a colon and two digits with hour 0..23 and minute 0..59, whatever
\* sequence of +1h, -1h, +5m, -5m and minute presets was pressed; a minute
\* button leaves the hour as it was and an hour button leaves the minute.
PickedHour(text) == 10 * DigitValue(text[1]) + DigitValue(text[2])
PickedMinute(text) == 10 * DigitValue(text[4]) + DigitValue(text[5])
C34_PickerKeepsValidTime ==
  /\ [](fsm.screen = "time" =>
          /\ Len(fsm.temp_time) = 5
          /\ \A i \in {1, 2, 4, 5} : fsm.temp_time[i] \in Digit
          /\ fsm.temp_time[3] = ":"
          /\ PickedHour(fsm.temp_time) <= 23
          /\ PickedMinute(fsm.temp_time) <= 59)
  /\ [][(fsm.screen = "time" /\ fsm'.screen = "time" /\ fsm'.temp_time # fsm.temp_time) =>
          \/ /\ PickedHour(fsm'.temp_time) = PickedHour(fsm.temp_time)
             /\ \/ (PickedMinute(fsm'.temp_time) - PickedMinute(fsm.temp_time)) % 60 \in {5, 55}
                \/ PickedMinute(fsm'.temp_time) \in {0, 15, 30, 45}
          \/ /\ PickedMinute(fsm'.temp_time) = PickedMinute(fsm.temp_time)
             /\ (PickedHour(fsm'.temp_time) - PickedHour(fsm.temp_time)) % 24 \in {1, 23}]_vars

\* C34 witness: from 12:00, -5m and then hours back past midnight: 23:55
C34_Witness ==
  /\ fsm.screen = "time"
  /\ fsm.temp_time = <<"2", "3", ":", "5", "5">>

\* C35: once init_db has run, and after every completed set_topic_name,
\* add_topic_if_not_exists and delete_topic, topics_cache is the set of
\* thread ids of the topics table, the seeded General topic 1 included.
C35_CacheMirrorsTable == running => topics_cache = DOMAIN topics

====
